---- MODULE Spec2Model ----
(***************************************************************************)
(* Model of the civilian advisory generator (civilian_ai_advisor.py), its  *)
(* reasoning-service client (claude_integration.py) and the route planner  *)
(* (civilian_route_planner.py).                                            *)
(*                                                                         *)
(* Python values are written as tagged records so that None and values of  *)
(* different types can be told apart: PyNone, PyNum(n), PyStr(s),          *)
(* PyStrs(list of str), PyShots(list of shot dicts).  Floats that are      *)
(* whole numbers in the source (25.0, 2.0, ...) are the integers 25, 2.    *)
(* Coordinates are fixed-point integers, one unit = 1e-6 degree.           *)
(***************************************************************************)
EXTENDS Integers, Sequences, FiniteSets, TLC

VARIABLES
    claude_integration, \* CivilianAIAdvisor.claude_integration (None, ClaudeIntegration, or another capability)
    pc,                 \* position of the advisor's caller: "idle", "awaiting" (suspended in the service call), "done"
    call,               \* the public operation in progress and its arguments
    cap_at_call,        \* the capability as it was when the operation was entered
    invocations,        \* calls of generate_expert_advice made by the operation in progress
    posts,              \* HTTP posts made by ClaudeIntegration for the operation in progress
    service_outcome,    \* how the awaited generate_expert_advice call ended (text or exception)
    result,             \* outcome of the operation: returned value or escaped exception
    generated_routes,   \* CivilianRoutePlanner.generated_routes
    plan_result,        \* outcome of the last plan_* call
    plan_returned,      \* number of plan_* calls that returned a RoutePlan
    plan_failed,        \* number of plan_* calls that raised
    plan_call,          \* the last plan_* call and its arguments
    clock,              \* int(time.time()) as read by the planner
    running,            \* FilmingTracker.running
    ai_advisor,         \* FilmingTracker.ai_advisor (None or a CivilianAIAdvisor)
    objects,            \* the TrackedSubject objects created so far, by reference
    tracked_subjects,   \* FilmingTracker.tracked_subjects: subject id -> reference
    tracking_history,   \* FilmingTracker.tracking_history: list of references
    advice_history,     \* FilmingTracker.advice_history
    tracker_pc,         \* "idle", or "awaiting" while update_tracking is suspended in the advisory call
    track_call,         \* the update_tracking call in progress or last made, its arguments and locals
    track_result,       \* outcome of the last update_tracking call
    frames,             \* number of update_tracking calls made
    tracker_time,       \* the last time.time() reading of the tracker, in seconds
    lock,               \* PerformanceMonitor.lock (threading.Lock): the thread that holds it, or NoThread
    stack,              \* per thread: its activations in the monitor and alerting code, innermost last
    metrics,            \* PerformanceMonitor.metrics: operation -> latencies
    latency_history,    \* PerformanceMonitor.latency_history
    cpu_history,        \* PerformanceMonitor.cpu_history
    memory_history,     \* PerformanceMonitor.memory_history
    monitor_calls,      \* number of calls made into the monitor and alerting code
    monitor_result,     \* per thread: outcome of its last call
    alerts,             \* AlertManager.alerts: alert id -> Alert
    alert_checks,       \* number of check_metrics calls that evaluated the thresholds
    active_connections, \* ConnectionManager.active_connections
    websocket,          \* per WebSocket: where its websocket_endpoint stands
    broadcast_at,       \* "idle", or "sending" while broadcast is suspended in send_json
    broadcast_index,    \* position of the list iterator of broadcast's for loop
    connection,         \* broadcast's loop variable
    disconnected,       \* broadcast's local list of connections whose send raised
    sent,               \* connections whose send_json returned during the last broadcast
    whole_duration,     \* connections in active_connections since the last broadcast began
    broadcasts          \* number of broadcasts begun

advisorVars == <<claude_integration, pc, call, cap_at_call, invocations, posts, service_outcome, result>>
plannerVars == <<generated_routes, plan_result, plan_returned, plan_failed, plan_call, clock>>
trackerVars == <<running, ai_advisor, objects, tracked_subjects, tracking_history, advice_history,
                 tracker_pc, track_call, track_result, frames, tracker_time>>
monitorVars == <<lock, stack, metrics, latency_history, cpu_history, memory_history,
                 monitor_calls, monitor_result>>
alertVars == <<alerts, alert_checks>>
serverVars == <<active_connections, websocket, broadcast_at, broadcast_index, connection,
                disconnected, sent, whole_duration, broadcasts>>
utilVars == <<monitorVars, alertVars, serverVars>>
vars == <<claude_integration, pc, call, cap_at_call, invocations, posts, service_outcome, result,
          generated_routes, plan_result, plan_returned, plan_failed, plan_call, clock,
          running, ai_advisor, objects, tracked_subjects, tracking_history, advice_history,
          tracker_pc, track_call, track_result, frames, tracker_time,
          lock, stack, metrics, latency_history, cpu_history, memory_history,
          monitor_calls, monitor_result, alerts, alert_checks,
          active_connections, websocket, broadcast_at, broadcast_index, connection,
          disconnected, sent, whole_duration, broadcasts>>

----------------------------------------------------------------------------
(* Bounds *)

MaxDocEdits == 2     \* service documents differ from {} or from the full document in at most this many fields
MaxRoutes == 2       \* returning (and raising) plan_* calls per behaviour of the history specification
MaxCalls == 1        \* plan_* calls per behaviour of the single-route specification
MaxSubjects == 2     \* subject positions per filming route
MaxWaypointCount == 2 \* waypoint_count of plan_general_route
MaxClock == 1        \* clock readings 0..MaxClock
MaxFrames == 2       \* update_tracking calls per behaviour
MaxTime == 3         \* tracker clock readings 0..MaxTime (seconds)
MaxUnnamedFrames == 3 \* update_tracking calls per behaviour of the specification of generated ids
MaxMonitorCalls == 3 \* calls into the monitor and alerting code per behaviour, over all threads
MaxChecks == 2       \* check_metrics calls per behaviour of the alert manager specification
MaxBroadcasts == 2   \* broadcast calls per behaviour of the connection manager specification

----------------------------------------------------------------------------
(* Python values *)

PyNone == [none |-> TRUE]
PyNum(n) == [num |-> n]
PyStr(s) == [str |-> s]
PyStrs(l) == [strs |-> l]
PyShots(l) == [shots |-> l]

\* dict.get(key, default)
DictGet(d, key, default) == IF key \in DOMAIN d THEN d[key] ELSE default

EmptyDict == [k \in {} |-> 0]

\* Python truthiness of a dict or list
IsEmptyDict(d) == DOMAIN d = {}

----------------------------------------------------------------------------
(* OperationType and the advice dataclasses *)

FILMING_WEDDING == "filming_wedding"
FILMING_ADVERTISEMENT == "filming_advertisement"
FILMING_EVENT == "filming_event"

FilmingKinds == {FILMING_WEDDING, FILMING_ADVERTISEMENT, FILMING_EVENT}

FilmingFields == {"recommended_altitude", "recommended_speed", "camera_angles",
                  "shot_sequence", "lighting_advice", "weather_considerations",
                  "framing_tips", "tracking_strategy"}

Shot(t, d, n) == [shot_type |-> t, description |-> d, duration |-> n]

FilmingAdvice(alt, spd, angles, shots, light, weather, tips, strategy) ==
    [recommended_altitude |-> alt, recommended_speed |-> spd,
     camera_angles |-> angles, shot_sequence |-> shots,
     lighting_advice |-> light, weather_considerations |-> weather,
     framing_tips |-> tips, tracking_strategy |-> strategy]

RouteAdvice(wps, path, timing, safety, tips) ==
    [waypoints |-> wps, recommended_path |-> path, timing_advice |-> timing,
     safety_considerations |-> safety, optimization_tips |-> tips]

----------------------------------------------------------------------------
(* Texts the reasoning service can return.  A text is either prose (not    *)
(* JSON) or the serialisation of a JSON value.                             *)

Prose(s) == [prose |-> s]
JsonText(v) == [json |-> v]

JsonObject(d) == [obj |-> d]
JsonArray == [arr |-> <<>>]

\* json.loads: raises JSONDecodeError on prose, else yields the JSON value
JSONDecodeError == [error |-> "JSONDecodeError"]
json_loads(text) == IF "prose" \in DOMAIN text THEN JSONDecodeError ELSE text.json

IsDecodeError(v) == "error" \in DOMAIN v
IsJsonObject(v) == "obj" \in DOMAIN v

----------------------------------------------------------------------------
(* Inputs of the advisory operations *)

Locations == {EmptyDict, [lat |-> 2000, lon |-> 4000]}
OptionalInfo == {PyNone, [note |-> "x"]}
HerdSizes == {PyNone, PyNum(50)}

----------------------------------------------------------------------------
(* CivilianAIAdvisor: deterministic defaults *)

GenericAltitude == PyNum(30)
GenericSpeed == PyNum(3)
GenericAngles == PyStrs(<<"overhead", "side", "follow">>)
GenericShots == PyShots(<<>>)
GenericLighting == PyStr("Use natural lighting when possible")
GenericWeather == PyStr("Check weather conditions before flight")
GenericTips == PyStrs(<<"Keep subject centered", "Use rule of thirds">>)
GenericStrategy == PyStr("Smooth tracking with gradual movements")

\* variant: the per-kind branches are lost and every kind gets the generic advice
get_filming_advice_default_generic(operation_type, location, subject_info, weather) ==
    FilmingAdvice(GenericAltitude, GenericSpeed, GenericAngles, GenericShots,
                  GenericLighting, GenericWeather, GenericTips, GenericStrategy)

get_filming_advice_default(operation_type, location, subject_info, weather) ==
    IF operation_type = FILMING_WEDDING THEN
        FilmingAdvice(
            PyNum(25), PyNum(2),
            PyStrs(<<"overhead", "side", "follow", "reveal">>),
            PyShots(<<Shot("establishing", "Wide shot of venue", 5),
                      Shot("following", "Follow couple walking", 10),
                      Shot("overhead", "Aerial view of ceremony", 15),
                      Shot("reveal", "Reveal shot of venue", 8)>>),
            PyStr("Golden hour (sunrise/sunset) provides best lighting. Avoid harsh midday sun."),
            PyStr("Clear skies preferred. Wind speeds should be below 10 m/s for stable footage."),
            PyStrs(<<"Keep couple centered in frame", "Use rule of thirds for composition",
                     "Maintain smooth, gradual movements", "Capture both wide and close-up shots">>),
            PyStr("Use smooth follow mode with gradual altitude changes. Maintain consistent distance from subjects."))
    ELSE IF operation_type = FILMING_ADVERTISEMENT THEN
        FilmingAdvice(
            PyNum(40), PyNum(4),
            PyStrs(<<"overhead", "orbit", "dolly", "crane">>),
            PyShots(<<Shot("establishing", "Wide establishing shot", 3),
                      Shot("orbit", "Orbit around subject", 8),
                      Shot("dolly", "Forward tracking shot", 5),
                      Shot("reveal", "Dramatic reveal", 4)>>),
            PyStr("Professional lighting setup recommended. Consider time of day for natural lighting."),
            PyStr("Controlled environment preferred. Check for wind and precipitation."),
            PyStrs(<<"Dynamic camera movements", "Multiple angles for variety",
                     "Smooth transitions between shots", "Focus on product/subject">>),
            PyStr("Precise tracking with multiple waypoints. Use orbit and dolly movements for dynamic shots."))
    ELSE
        FilmingAdvice(GenericAltitude, GenericSpeed, GenericAngles, GenericShots,
                      GenericLighting, GenericWeather, GenericTips, GenericStrategy)

generate_mustering_waypoints(start, end) ==
    << [position |-> <<DictGet(start, "lat", 0), DictGet(start, "lon", 0), 25>>,
        altitude |-> 25,
        description |-> "Start position - approach herd from side"],
       [position |-> <<(DictGet(start, "lat", 0) + DictGet(end, "lat", 0)) \div 2,
                       (DictGet(start, "lon", 0) + DictGet(end, "lon", 0)) \div 2, 30>>,
        altitude |-> 30,
        description |-> "Midpoint - guide herd direction"],
       [position |-> <<DictGet(end, "lat", 0), DictGet(end, "lon", 0), 25>>,
        altitude |-> 25,
        description |-> "Destination - final approach"] >>

generate_hunting_waypoints(target, terrain) ==
    << [position |-> <<DictGet(target, "lat", 0) - 1000, DictGet(target, "lon", 0), 40>>,
        altitude |-> 40,
        description |-> "Approach point - downwind side"],
       [position |-> <<DictGet(target, "lat", 0), DictGet(target, "lon", 0), 35>>,
        altitude |-> 35,
        description |-> "Target location - maintain safe distance"] >>

get_mustering_advice_default(herd_location, destination, herd_size, terrain) ==
    RouteAdvice(
        generate_mustering_waypoints(herd_location, destination),
        "Gradual approach with wide arcs to avoid stressing animals",
        "Early morning (6-8 AM) or late afternoon (4-6 PM) when animals are most active and temperatures are moderate",
        <<"Maintain minimum 20m altitude to avoid spooking animals",
          "Use gradual movements - avoid sudden direction changes",
          "Watch for terrain obstacles (fences, water, steep slopes)",
          "Monitor animal stress levels - if animals scatter, increase altitude",
          "Ensure clear communication with ground crew if present">>,
        <<"Start with wide arcs around the herd to gather them",
          "Use side-to-side movements to guide direction",
          "Maintain consistent altitude (20-30m recommended)",
          "Work with natural terrain features (valleys, ridges)",
          "Plan route to avoid obstacles and hazards",
          "Consider wind direction - animals may move with or against wind">>)

get_hunting_advice_default(target_location, animal_type, terrain, weather) ==
    RouteAdvice(
        generate_hunting_waypoints(target_location, terrain),
        "Stealth approach using terrain cover, approach from downwind direction",
        "Early morning (dawn) or late afternoon (dusk) when animals are most active. Avoid midday when animals rest.",
        <<"Maintain legal altitude (typically 120m/400ft maximum)",
          "Respect wildlife - do not harass or stress animals",
          "Follow all local hunting regulations and seasons",
          "Ensure safe shooting angles - never shoot toward populated areas",
          "Maintain visual line of sight at all times",
          "Check for other hunters in the area">>,
        <<"Approach from downwind to avoid detection by scent",
          "Use terrain features (ridges, valleys) for cover",
          "Plan approach route to minimize noise",
          "Consider animal behavior patterns for the species",
          "Use low altitude (30-50m) for stealth when legal",
          "Plan multiple approach angles as backup",
          "Monitor wind direction and adjust approach accordingly">>)

GeneralAdviceUnavailable ==
    Prose("AI advice is currently unavailable. Please consult your operation manual.")

\* RouteAdvice built after a service call that did not raise (the text is not used)
mustering_advice_after_service(herd_location, destination) ==
    RouteAdvice(
        generate_mustering_waypoints(herd_location, destination),
        "Gradual approach with wide arcs",
        "Early morning or late afternoon when animals are most active",
        <<"Maintain safe distance from animals", "Avoid sudden movements",
          "Watch for obstacles and terrain hazards">>,
        <<"Use wide arcs to guide herd", "Maintain consistent altitude",
          "Work with ground crew if available">>)

hunting_advice_after_service(target_location, terrain) ==
    RouteAdvice(
        generate_hunting_waypoints(target_location, terrain),
        "Stealth approach with wind consideration",
        "Early morning or late afternoon when animals are most active",
        <<"Maintain legal altitude limits", "Respect wildlife and avoid harassment",
          "Follow all local hunting regulations", "Ensure safe shooting angles">>,
        <<"Approach from downwind", "Use terrain for cover",
          "Minimize noise and visual disturbance", "Plan escape routes">>)

----------------------------------------------------------------------------
(* Responses of the reasoning service *)

Absent == [absent |-> TRUE]

\* values a service document can carry for a field: null or a value of the documented type
FieldChoices ==
    [recommended_altitude   |-> {PyNone, PyNum(60)},
     recommended_speed      |-> {PyNone, PyNum(6)},
     camera_angles          |-> {PyNone, PyStrs(<<"tracking">>), PyStrs(<<>>)},
     shot_sequence          |-> {PyNone, PyShots(<<Shot("pan", "Slow pan", 0)>>), PyShots(<<>>)},
     lighting_advice        |-> {PyNone, PyStr("Backlight at dusk")},
     weather_considerations |-> {PyNone, PyStr("Calm air only")},
     framing_tips           |-> {PyNone, PyStrs(<<"Leave lead room">>)},
     tracking_strategy      |-> {PyNone, PyStr("Orbit the subject")}]

FullSlots ==
    [recommended_altitude   |-> PyNum(60),
     recommended_speed      |-> PyNum(6),
     camera_angles          |-> PyStrs(<<"tracking">>),
     shot_sequence          |-> PyShots(<<Shot("pan", "Slow pan", 0)>>),
     lighting_advice        |-> PyStr("Backlight at dusk"),
     weather_considerations |-> PyStr("Calm air only"),
     framing_tips           |-> PyStrs(<<"Leave lead room">>),
     tracking_strategy      |-> PyStr("Orbit the subject")]

EmptySlots == [f \in FilmingFields |-> Absent]

SlotDistance(s, t) == Cardinality({f \in FilmingFields : s[f] # t[f]})

AllSlots ==
    [recommended_altitude   : FieldChoices.recommended_altitude \cup {Absent},
     recommended_speed      : FieldChoices.recommended_speed \cup {Absent},
     camera_angles          : FieldChoices.camera_angles \cup {Absent},
     shot_sequence          : FieldChoices.shot_sequence \cup {Absent},
     lighting_advice        : FieldChoices.lighting_advice \cup {Absent},
     weather_considerations : FieldChoices.weather_considerations \cup {Absent},
     framing_tips           : FieldChoices.framing_tips \cup {Absent},
     tracking_strategy      : FieldChoices.tracking_strategy \cup {Absent}]

\* the dict a slot assignment stands for: absent fields are not keys
SlotsToDict(s) == [f \in {g \in FilmingFields : s[g] # Absent} |-> s[f]]

ServiceDocs ==
    {SlotsToDict(s) : s \in {t \in AllSlots : \/ SlotDistance(t, EmptySlots) <= MaxDocEdits
                                              \/ SlotDistance(t, FullSlots) <= MaxDocEdits}}

\* JSON values that are not key-value objects
NonObjectJson == {JsonArray, PyNum(42), PyStr("fly low"), PyNone}

ProseTexts == {Prose("Fly low and slow."), Prose("{recommended_altitude: 60")}

ServiceTexts ==
    ProseTexts \cup {JsonText(v) : v \in NonObjectJson}
               \cup {JsonText(JsonObject(d)) : d \in ServiceDocs}

ServiceExceptions == {"TimeoutError", "ConnectionError", "RuntimeError"}

----------------------------------------------------------------------------
(* ClaudeIntegration *)

NoIntegration == [kind |-> "None"]
ClaudeIntegration(has_key) ==
    [kind |-> "ClaudeIntegration", api_key |-> has_key, running |-> has_key]
\* any other object passed as claude_integration: its generate_expert_advice may raise
OtherCapability == [kind |-> "other"]

Integrations == {NoIntegration, ClaudeIntegration(TRUE), ClaudeIntegration(FALSE), OtherCapability}

NotAvailableText == Prose("AI advice not available. Please configure Anthropic API key.")
UnexpectedFormatText == Prose("Error: Unexpected response format from Claude API")
StatusErrorText == Prose("Error: API request failed with status 500")
TimeoutText == Prose("Error: Request timed out. Please try again.")
OtherErrorText == Prose("Error: connection reset")

ErrorTexts == {UnexpectedFormatText, StatusErrorText, TimeoutText, OtherErrorText}

\* what the HTTP exchange of one post can do
HttpOutcomes ==
    {[http |-> "text", text |-> t] : t \in ServiceTexts}
        \cup {[http |-> h] : h \in {"no_content", "status_error", "timeout", "exception"}}

IsReady(ci) == ci.kind = "ClaudeIntegration" /\ ci.running /\ ci.api_key

\* ClaudeIntegration.generate_expert_advice after the post: always a text, never an exception
generate_expert_advice(http) ==
    CASE http.http = "text" -> http.text
      [] http.http = "no_content" -> UnexpectedFormatText
      [] http.http = "status_error" -> StatusErrorText
      [] http.http = "timeout" -> TimeoutText
      [] OTHER -> OtherErrorText

Returns(t) == [text |-> t]
Raises(e) == [raise |-> e]
IsRaise(o) == "raise" \in DOMAIN o

\* outcomes of the awaited generate_expert_advice call, by capability
ServiceOutcomes(ci) ==
    IF ci.kind = "ClaudeIntegration"
    THEN {Returns(generate_expert_advice(h)) : h \in HttpOutcomes}
    ELSE {Returns(t) : t \in ServiceTexts} \cup {Raises(e) : e \in ServiceExceptions}

----------------------------------------------------------------------------
(* CivilianAIAdvisor: the part of each operation that follows the awaited  *)
(* service call                                                            *)

\* FilmingAdvice(...) built from the parsed document with advice_json.get(field, fallback)
filming_advice_from_json(advice_json) ==
    FilmingAdvice(
        DictGet(advice_json, "recommended_altitude", GenericAltitude),
        DictGet(advice_json, "recommended_speed", GenericSpeed),
        DictGet(advice_json, "camera_angles", GenericAngles),
        DictGet(advice_json, "shot_sequence", GenericShots),
        DictGet(advice_json, "lighting_advice", GenericLighting),
        DictGet(advice_json, "weather_considerations", GenericWeather),
        DictGet(advice_json, "framing_tips", GenericTips),
        DictGet(advice_json, "tracking_strategy", GenericStrategy))

\* variant: a parse failure is answered with the field fallbacks instead of the default of the kind
get_filming_advice_from_ai_fallbacks(c, outcome) ==
    LET default == get_filming_advice_default(c.operation_type, c.location,
                                              c.subject_info, c.weather)
    IN  IF IsRaise(outcome) THEN default
        ELSE LET advice_json == json_loads(outcome.text)
             IN  IF IsDecodeError(advice_json) \/ ~IsJsonObject(advice_json)
                 THEN filming_advice_from_json(EmptyDict)
                 ELSE filming_advice_from_json(advice_json.obj)

\* try/except of _get_filming_advice_from_ai: a raised exception, a decode error, and the
\* AttributeError of calling .get on a value that is not a dict all end in the default
get_filming_advice_from_ai(c, outcome) ==
    LET default == get_filming_advice_default(c.operation_type, c.location,
                                              c.subject_info, c.weather)
    IN  IF IsRaise(outcome) THEN default
        ELSE LET advice_json == json_loads(outcome.text)
             IN  IF IsDecodeError(advice_json) THEN default
                 ELSE IF ~IsJsonObject(advice_json) THEN default
                 ELSE filming_advice_from_json(advice_json.obj)

get_mustering_advice_from_ai(c, outcome) ==
    IF IsRaise(outcome)
    THEN get_mustering_advice_default(c.herd_location, c.destination, c.herd_size, c.terrain)
    ELSE mustering_advice_after_service(c.herd_location, c.destination)

get_hunting_advice_from_ai(c, outcome) ==
    IF IsRaise(outcome)
    THEN get_hunting_advice_default(c.target_location, c.animal_type, c.terrain, c.weather)
    ELSE hunting_advice_after_service(c.target_location, c.terrain)

Returned(v) == [returned |-> v]
Raised(e) == [raised |-> e]
Pending == [pending |-> TRUE]

HasReturned(r) == "returned" \in DOMAIN r
HasRaised(r) == "raised" \in DOMAIN r

\* value of operation c when claude_integration is None
DefaultOf(c) ==
    CASE c.op = "get_filming_advice" ->
            get_filming_advice_default(c.operation_type, c.location, c.subject_info, c.weather)
      [] c.op = "get_mustering_advice" ->
            get_mustering_advice_default(c.herd_location, c.destination, c.herd_size, c.terrain)
      [] c.op = "get_hunting_advice" ->
            get_hunting_advice_default(c.target_location, c.animal_type, c.terrain, c.weather)
      [] OTHER -> GeneralAdviceUnavailable

\* outcome of operation c once the service call has ended with `outcome`
AfterService(c, outcome) ==
    CASE c.op = "get_filming_advice" -> Returned(get_filming_advice_from_ai(c, outcome))
      [] c.op = "get_mustering_advice" -> Returned(get_mustering_advice_from_ai(c, outcome))
      [] c.op = "get_hunting_advice" -> Returned(get_hunting_advice_from_ai(c, outcome))
      [] OTHER -> IF IsRaise(outcome) THEN Raised(outcome.raise) ELSE Returned(outcome.text)

NoCall == [op |-> "none"]

\* entry of a public operation up to its first suspension (or to its return)
Enter(c) ==
    /\ pc = "idle"
    /\ call' = c
    /\ cap_at_call' = claude_integration
    /\ IF claude_integration = NoIntegration
       THEN /\ result' = Returned(DefaultOf(c))
            /\ service_outcome' = Pending
            /\ invocations' = 0
            /\ posts' = 0
            /\ pc' = "done"
       ELSE IF claude_integration.kind = "ClaudeIntegration" /\ ~IsReady(claude_integration)
       THEN \* generate_expert_advice returns at once, without a post
            /\ result' = AfterService(c, Returns(NotAvailableText))
            /\ service_outcome' = Returns(NotAvailableText)
            /\ invocations' = invocations + 1
            /\ posts' = 0
            /\ pc' = "done"
       ELSE /\ result' = Pending
            /\ service_outcome' = Pending
            /\ invocations' = invocations + 1
            /\ posts' = IF claude_integration.kind = "ClaudeIntegration" THEN posts + 1 ELSE posts
            /\ pc' = "awaiting"
    /\ UNCHANGED <<claude_integration, plannerVars, trackerVars, utilVars>>

get_filming_advice ==
    /\ pc = "idle"
    /\ \E operation_type \in FilmingKinds, location \in Locations,
       subject_info \in OptionalInfo, weather \in OptionalInfo :
        Enter([op |-> "get_filming_advice", operation_type |-> operation_type,
               location |-> location, subject_info |-> subject_info, weather |-> weather])

get_mustering_advice ==
    /\ pc = "idle"
    /\ \E herd_location \in Locations, destination \in Locations,
       herd_size \in HerdSizes, terrain \in OptionalInfo :
        Enter([op |-> "get_mustering_advice", herd_location |-> herd_location,
               destination |-> destination, herd_size |-> herd_size, terrain |-> terrain])

get_hunting_advice ==
    /\ pc = "idle"
    /\ \E target_location \in Locations, terrain \in OptionalInfo, weather \in OptionalInfo :
        Enter([op |-> "get_hunting_advice", target_location |-> target_location,
               animal_type |-> "deer", terrain |-> terrain, weather |-> weather])

get_general_advice ==
    /\ pc = "idle"
    /\ \E context \in OptionalInfo :
        Enter([op |-> "get_general_advice", question |-> "How do I frame the subject?",
               context |-> context])

\* variant: a failed service call is attempted again before the fallback
ServiceResponds_retry ==
    /\ pc = "awaiting"
    /\ \E outcome \in ServiceOutcomes(cap_at_call) :
          IF (IsRaise(outcome) \/ outcome.text \in ErrorTexts) /\ invocations < 2
          THEN /\ invocations' = invocations + 1
               /\ posts' = IF cap_at_call.kind = "ClaudeIntegration" THEN posts + 1 ELSE posts
               /\ UNCHANGED <<pc, service_outcome, result>>
          ELSE /\ service_outcome' = outcome
               /\ result' = AfterService(call, outcome)
               /\ pc' = "done"
               /\ UNCHANGED <<invocations, posts>>
    /\ UNCHANGED <<claude_integration, call, cap_at_call, plannerVars, trackerVars, utilVars>>

\* the awaited generate_expert_advice call ends and the operation runs to its end
ServiceResponds ==
    /\ pc = "awaiting"
    /\ \E outcome \in ServiceOutcomes(cap_at_call) :
          /\ service_outcome' = outcome
          /\ result' = AfterService(call, outcome)
    /\ pc' = "done"
    /\ UNCHANGED <<claude_integration, call, cap_at_call, invocations, posts, plannerVars, trackerVars, utilVars>>

\* the caller takes the outcome; the next operation starts from a clean slate
CallerResumes ==
    /\ pc = "done"
    /\ pc' = "idle"
    /\ call' = NoCall
    /\ cap_at_call' = NoIntegration
    /\ invocations' = 0
    /\ posts' = 0
    /\ service_outcome' = Pending
    /\ result' = Pending
    /\ UNCHANGED <<claude_integration, plannerVars, trackerVars, utilVars>>

\* ClaudeIntegration.start
integration_start ==
    /\ claude_integration.kind = "ClaudeIntegration"
    /\ claude_integration' = IF claude_integration.api_key
                             THEN [claude_integration EXCEPT !.running = TRUE]
                             ELSE claude_integration
    /\ UNCHANGED <<pc, call, cap_at_call, invocations, posts, service_outcome, result, plannerVars, trackerVars, utilVars>>

\* ClaudeIntegration.shutdown
integration_shutdown ==
    /\ claude_integration.kind = "ClaudeIntegration"
    /\ claude_integration' = [claude_integration EXCEPT !.running = FALSE]
    /\ UNCHANGED <<pc, call, cap_at_call, invocations, posts, service_outcome, result, plannerVars, trackerVars, utilVars>>

InitAdvisor ==
    /\ claude_integration \in Integrations
    /\ pc = "idle"
    /\ call = NoCall
    /\ cap_at_call = NoIntegration
    /\ invocations = 0
    /\ posts = 0
    /\ service_outcome = Pending
    /\ result = Pending

InitPlanner ==
    /\ generated_routes = <<>>
    /\ plan_result = Pending
    /\ plan_returned = 0
    /\ plan_failed = 0
    /\ plan_call = NoCall
    /\ clock = 0

\* FilmingTracker.__init__, but for the ai_advisor argument
InitTrackerState ==
    /\ running = FALSE
    /\ objects = <<>>
    /\ tracked_subjects = EmptyDict
    /\ tracking_history = <<>>
    /\ advice_history = <<>>
    /\ tracker_pc = "idle"
    /\ track_call = NoCall
    /\ track_result = Pending
    /\ frames = 0
    /\ tracker_time = 0

InitTracker == InitTrackerState /\ ai_advisor = PyNone

\* the threads that share the PerformanceMonitor
Threads == {"t1", "t2"}
NoThread == "none"

\* PerformanceMonitor.__init__
InitMonitor ==
    /\ lock = NoThread
    /\ stack = [t \in Threads |-> <<>>]
    /\ metrics = EmptyDict
    /\ latency_history = <<>>
    /\ cpu_history = <<>>
    /\ memory_history = <<>>
    /\ monitor_calls = 0
    /\ monitor_result = [t \in Threads |-> Pending]

\* AlertManager.__init__
InitAlerts ==
    /\ alerts = EmptyDict
    /\ alert_checks = 0

WebSockets == {"ws1", "ws2", "ws3"}
NoConnection == "none"

\* ConnectionManager.__init__; no client has reached websocket_endpoint
InitServer ==
    /\ active_connections = <<>>
    /\ websocket = [w \in WebSockets |-> "new"]
    /\ broadcast_at = "idle"
    /\ broadcast_index = 0
    /\ connection = NoConnection
    /\ disconnected = <<>>
    /\ sent = {}
    /\ whole_duration = {}
    /\ broadcasts = 0

Init == InitAdvisor /\ InitPlanner /\ InitTracker /\ InitMonitor /\ InitAlerts /\ InitServer

NextAdvisor ==
    \/ get_filming_advice
    \/ get_mustering_advice
    \/ get_hunting_advice
    \/ get_general_advice
    \/ ServiceResponds
    \/ CallerResumes
    \/ integration_start
    \/ integration_shutdown

SpecAdvisor == Init /\ [][NextAdvisor]_vars

----------------------------------------------------------------------------
(* CivilianRoutePlanner *)

\* attributes __init__ sets on the planner object; approach_speed is not among them
PlannerAttributes == {"config", "ai_advisor", "max_altitude", "min_altitude",
                      "cruise_speed", "filming_speed", "generated_routes"}
cruise_speed == 5

CivilianWaypoint(lat, lon, altitude, heading, speed, description, shot_type, camera_angle, duration) ==
    [lat |-> lat, lon |-> lon, altitude |-> altitude, heading |-> heading, speed |-> speed,
     description |-> description, shot_type |-> shot_type, camera_angle |-> camera_angle,
     duration |-> duration]

RoutePlan(route_id, route_type, waypoints, total_distance, estimated_duration, safety_score, optimization_tips, weather_considerations, terrain_notes) ==
    [route_id |-> route_id, route_type |-> route_type, waypoints |-> waypoints,
     total_distance |-> total_distance, estimated_duration |-> estimated_duration,
     safety_score |-> safety_score, optimization_tips |-> optimization_tips,
     weather_considerations |-> weather_considerations, terrain_notes |-> terrain_notes]

\* f"{prefix}_{int(time.time())}"
RouteId(prefix, t) == [prefix |-> prefix, t |-> t]

\* descriptions: a fixed text, or a text with the 1-based subject or waypoint number
Desc(s) == [text |-> s]
DescN(s, n) == [text |-> s, n |-> n]

\* heading=0.0
FixedHeading == [deg |-> 0]

\* _calculate_heading: the initial bearing is kept as a term of its two arguments
\* (atan2 of 0, 0 is 0 for coincident points)
calculate_heading(start, end) ==
    IF start.lat = end.lat /\ start.lon = end.lon
    THEN FixedHeading
    ELSE [bearing_from |-> <<start.lat, start.lon>>, bearing_to |-> <<end.lat, end.lon>>]

RECURSIVE SqrtSearch(_, _, _)
SqrtSearch(x, lo, hi) ==
    IF lo >= hi THEN lo
    ELSE LET mid == (lo + hi + 1) \div 2
         IN  IF mid * mid <= x THEN SqrtSearch(x, mid, hi) ELSE SqrtSearch(x, lo, mid - 1)

ISqrt(x) == SqrtSearch(x, 0, 46340)

\* haversine distance of two waypoints in metres; for the short, near-equator legs of
\* the model it is the planar distance, 0.1112 m per 1e-6 degree
segment_distance(wp1, wp2) ==
    LET dlat == wp2.lat - wp1.lat
        dlon == wp2.lon - wp1.lon
    IN  (1112 * ISqrt(dlat * dlat + dlon * dlon)) \div 10000

RECURSIVE SumSegments(_, _)
SumSegments(waypoints, i) ==
    IF i >= Len(waypoints) THEN 0
    ELSE segment_distance(waypoints[i], waypoints[i + 1]) + SumSegments(waypoints, i + 1)

\* variant: the loop starts one segment late
calculate_total_distance_late_start(waypoints) ==
    IF Len(waypoints) < 2 THEN 0 ELSE SumSegments(waypoints, 2)

calculate_total_distance(waypoints) ==
    IF Len(waypoints) < 2 THEN 0 ELSE SumSegments(waypoints, 1)

\* Python truthiness of the filming_advice argument (None and {} are falsy)
Truthy(filming_advice) == filming_advice # PyNone /\ ~IsEmptyDict(filming_advice)

AdviceAltitude(filming_advice) ==
    IF Truthy(filming_advice) THEN DictGet(filming_advice, "recommended_altitude", PyNum(30))
    ELSE PyNum(30)

AdviceSpeed(filming_advice) ==
    IF Truthy(filming_advice) THEN DictGet(filming_advice, "recommended_speed", PyNum(2))
    ELSE PyNum(2)

AdviceAngles(filming_advice) == DictGet(filming_advice, "camera_angles", PyStrs(<<"overhead">>))

\* exception of camera_angles[i % len(camera_angles)], "none" when it evaluates
CameraAngleError(filming_advice) ==
    IF ~Truthy(filming_advice) THEN "none"
    ELSE IF AdviceAngles(filming_advice) = PyNone THEN "TypeError"
    ELSE IF Len(AdviceAngles(filming_advice).strs) = 0 THEN "ZeroDivisionError"
    ELSE "none"

\* i is the 0-based index of the subject
CameraAngle(filming_advice, i) ==
    IF Truthy(filming_advice)
    THEN LET angles == AdviceAngles(filming_advice).strs
         IN  PyStr(angles[(i % Len(angles)) + 1])
    ELSE PyStr("overhead")

ShotInfo(filming_advice, i) ==
    LET shot_sequence == IF Truthy(filming_advice)
                         THEN DictGet(filming_advice, "shot_sequence", PyShots(<<>>))
                         ELSE PyShots(<<>>)
    IN  IF shot_sequence = PyNone \/ Len(shot_sequence.shots) = 0
        THEN EmptyDict
        ELSE shot_sequence.shots[(i % Len(shot_sequence.shots)) + 1]

\* variant: the orbit is flown for advertisements only
NeedsOrbit_advertisement_only(subject_positions, operation_type) ==
    operation_type = "advertisement"

\* if len(subject_positions) > 1 or operation_type == "advertisement"
NeedsOrbit(subject_positions, operation_type) ==
    Len(subject_positions) > 1 \/ operation_type = "advertisement"

RECURSIVE filming_waypoints(_, _, _, _, _)
filming_waypoints(waypoints, subject_positions, n, operation_type, filming_advice) ==
    IF n > Len(subject_positions) THEN waypoints
    ELSE
      LET subject_pos == subject_positions[n]
          last == waypoints[Len(waypoints)]
          has == Truthy(filming_advice)
          shot_info == ShotInfo(filming_advice, n - 1)
          approach == CivilianWaypoint(
              subject_pos.lat - 100, subject_pos.lon,
              AdviceAltitude(filming_advice),
              calculate_heading([lat |-> last.lat, lon |-> last.lon], subject_pos),
              AdviceSpeed(filming_advice),
              DescN("Approach subject", n),
              IF has THEN PyStr("approach") ELSE PyNone,
              IF has THEN PyStr("side") ELSE PyNone,
              PyNum(3))
          film == CivilianWaypoint(
              subject_pos.lat, subject_pos.lon,
              AdviceAltitude(filming_advice),
              FixedHeading,
              AdviceSpeed(filming_advice),
              DescN("Film subject", n),
              IF ~IsEmptyDict(shot_info)
                  THEN PyStr(DictGet(shot_info, "shot_type", "following"))
                  ELSE PyStr("following"),
              CameraAngle(filming_advice, n - 1),
              IF ~IsEmptyDict(shot_info)
                  THEN PyNum(DictGet(shot_info, "duration", 10))
                  ELSE PyNum(10))
          orbit == CivilianWaypoint(
              subject_pos.lat + 100, subject_pos.lon + 100,
              AdviceAltitude(filming_advice),
              calculate_heading(subject_pos, [lat |-> subject_pos.lat + 100,
                                              lon |-> subject_pos.lon + 100]),
              AdviceSpeed(filming_advice),
              DescN("Orbit around subject", n),
              IF has THEN PyStr("orbit") ELSE PyNone,
              IF has THEN PyStr("orbit") ELSE PyNone,
              PyNum(8))
          added == IF NeedsOrbit(subject_positions, operation_type)
                   THEN <<approach, film, orbit>>
                   ELSE <<approach, film>>
      IN  filming_waypoints(waypoints \o added, subject_positions, n + 1,
                            operation_type, filming_advice)

\* wp.duration or 10.0
DurationOr10(wp) ==
    IF wp.duration = PyNone \/ wp.duration = PyNum(0) THEN 10 ELSE wp.duration.num

RECURSIVE SumDurations(_, _)
SumDurations(waypoints, i) ==
    IF i > Len(waypoints) THEN 0
    ELSE DurationOr10(waypoints[i]) + SumDurations(waypoints, i + 1)

filming_route(start_pos, subject_positions, operation_type, filming_advice, now) ==
    LET has == Truthy(filming_advice)
        start == CivilianWaypoint(
            start_pos.lat, start_pos.lon,
            AdviceAltitude(filming_advice), FixedHeading, AdviceSpeed(filming_advice),
            Desc("Starting position - prepare for filming"),
            IF has THEN PyStr("establishing") ELSE PyNone,
            IF has THEN PyStr("overhead") ELSE PyNone,
            PyNum(5))
        waypoints == filming_waypoints(<<start>>, subject_positions, 1,
                                       operation_type, filming_advice)
    IN  RoutePlan(
            RouteId("filming", now), "filming", waypoints,
            calculate_total_distance(waypoints),
            SumDurations(waypoints, 1),
            90,
            IF has THEN DictGet(filming_advice, "framing_tips", PyStrs(<<>>))
                   ELSE PyStrs(<<"Maintain smooth camera movements", "Keep subjects in frame",
                                 "Use rule of thirds for composition">>),
            IF has THEN DictGet(filming_advice, "weather_considerations",
                                PyStr("Check weather before flight"))
                   ELSE PyStr("Check weather conditions"),
            PyStrs(<<"Ensure clear line of sight", "Avoid obstacles">>))

\* variant: the destination waypoint is never appended
mustering_waypoints_no_arrival(herd_location, destination) ==
    LET mid_lat == (herd_location.lat + destination.lat) \div 2
        mid_lon == (herd_location.lon + destination.lon) \div 2
    IN  <<
        CivilianWaypoint(herd_location.lat - 200, herd_location.lon - 200, PyNum(25),
                         calculate_heading(herd_location, destination), PyNum(3),
                         Desc("Approach herd from side - begin gathering"),
                         PyNone, PyNone, PyNone),
        CivilianWaypoint(herd_location.lat, herd_location.lon, PyNum(25),
                         calculate_heading(herd_location, destination), PyNum(2),
                         Desc("Herd location - maintain safe distance"),
                         PyNone, PyNone, PyNone),
        CivilianWaypoint(mid_lat, mid_lon, PyNum(30),
                         calculate_heading(herd_location, destination), PyNum(3),
                         Desc("Midpoint - guide herd direction"),
                         PyNone, PyNone, PyNone),
        CivilianWaypoint(destination.lat - 100, destination.lon, PyNum(25),
                         calculate_heading([lat |-> mid_lat, lon |-> mid_lon], destination),
                         PyNum(2),
                         Desc("Approach destination - final guidance"),
                         PyNone, PyNone, PyNone) >>

\* variant: the herd is brought in at the approach speed
mustering_waypoints_fast_arrival(herd_location, destination) ==
    LET mid_lat == (herd_location.lat + destination.lat) \div 2
        mid_lon == (herd_location.lon + destination.lon) \div 2
    IN  <<
        CivilianWaypoint(herd_location.lat - 200, herd_location.lon - 200, PyNum(25),
                         calculate_heading(herd_location, destination), PyNum(3),
                         Desc("Approach herd from side - begin gathering"),
                         PyNone, PyNone, PyNone),
        CivilianWaypoint(herd_location.lat, herd_location.lon, PyNum(25),
                         calculate_heading(herd_location, destination), PyNum(2),
                         Desc("Herd location - maintain safe distance"),
                         PyNone, PyNone, PyNone),
        CivilianWaypoint(mid_lat, mid_lon, PyNum(30),
                         calculate_heading(herd_location, destination), PyNum(3),
                         Desc("Midpoint - guide herd direction"),
                         PyNone, PyNone, PyNone),
        CivilianWaypoint(destination.lat - 100, destination.lon, PyNum(25),
                         calculate_heading([lat |-> mid_lat, lon |-> mid_lon], destination),
                         PyNum(2),
                         Desc("Approach destination - final guidance"),
                         PyNone, PyNone, PyNone),
        CivilianWaypoint(destination.lat, destination.lon, PyNum(25),
                         FixedHeading, PyNum(2),
                         Desc("Destination - herd arrival point"),
                         PyNone, PyNone, PyNone) >>

\* the five waypoints plan_mustering_route appends
mustering_waypoints(herd_location, destination) ==
    LET mid_lat == (herd_location.lat + destination.lat) \div 2
        mid_lon == (herd_location.lon + destination.lon) \div 2
    IN  <<
        CivilianWaypoint(herd_location.lat - 200, herd_location.lon - 200, PyNum(25),
                         calculate_heading(herd_location, destination), PyNum(3),
                         Desc("Approach herd from side - begin gathering"),
                         PyNone, PyNone, PyNone),
        CivilianWaypoint(herd_location.lat, herd_location.lon, PyNum(25),
                         calculate_heading(herd_location, destination), PyNum(2),
                         Desc("Herd location - maintain safe distance"),
                         PyNone, PyNone, PyNone),
        CivilianWaypoint(mid_lat, mid_lon, PyNum(30),
                         calculate_heading(herd_location, destination), PyNum(3),
                         Desc("Midpoint - guide herd direction"),
                         PyNone, PyNone, PyNone),
        CivilianWaypoint(destination.lat - 100, destination.lon, PyNum(25),
                         calculate_heading([lat |-> mid_lat, lon |-> mid_lon], destination),
                         PyNum(2),
                         Desc("Approach destination - final guidance"),
                         PyNone, PyNone, PyNone),
        CivilianWaypoint(destination.lat, destination.lon, PyNum(25),
                         FixedHeading, PyNum(1),
                         Desc("Destination - herd arrival point"),
                         PyNone, PyNone, PyNone) >>

mustering_route(herd_location, destination, now) ==
    LET waypoints == mustering_waypoints(herd_location, destination)
        total_distance == calculate_total_distance(waypoints)
    IN  RoutePlan(
            RouteId("mustering", now), "mustering", waypoints,
            total_distance, total_distance \div 3, 85,
            PyStrs(<<"Use wide arcs to avoid stressing animals",
                     "Maintain consistent altitude (20-30m)",
                     "Work with ground crew if available",
                     "Monitor animal behavior and adjust approach">>),
            PyStr("Early morning or late afternoon when animals are most active. Avoid extreme heat."),
            PyStrs(<<"Avoid obstacles (fences, water, steep slopes)",
                     "Use natural terrain features to guide movement",
                     "Plan route to minimize animal stress">>))

\* variant: the approach lies upwind of the target
WindOffset_upwind(wind_direction) ==
    LET a == wind_direction % 360
    IN  CASE a = 0 -> [lat |-> 200, lon |-> 0]
          [] a = 90 -> [lat |-> 0, lon |-> 200]
          [] a = 180 -> [lat |-> -200, lon |-> 0]
          [] OTHER -> [lat |-> 0, lon |-> -200]

\* 0.0002 * cos and 0.0002 * sin of (wind_direction + 180) degrees, for winds that are
\* multiples of 90 degrees
WindOffset(wind_direction) ==
    LET a == (wind_direction + 180) % 360
    IN  CASE a = 0 -> [lat |-> 200, lon |-> 0]
          [] a = 90 -> [lat |-> 0, lon |-> 200]
          [] a = 180 -> [lat |-> -200, lon |-> 0]
          [] OTHER -> [lat |-> 0, lon |-> -200]

hunting_route(start_pos, target_location, animal_type, wind_direction, now) ==
    LET approach_lat == IF wind_direction # PyNone
                        THEN target_location.lat + WindOffset(wind_direction.num).lat
                        ELSE target_location.lat - 200
        approach_lon == IF wind_direction # PyNone
                        THEN target_location.lon + WindOffset(wind_direction.num).lon
                        ELSE target_location.lon
        waypoints == <<
            CivilianWaypoint(start_pos.lat, start_pos.lon, PyNum(50), FixedHeading, PyNum(4),
                             Desc("Starting position - begin scouting"),
                             PyNone, PyNone, PyNone),
            CivilianWaypoint(approach_lat, approach_lon, PyNum(40),
                             calculate_heading(start_pos, target_location), PyNum(3),
                             Desc("Approach point - downwind side for stealth"),
                             PyNone, PyNone, PyNone),
            CivilianWaypoint(target_location.lat, target_location.lon, PyNum(35),
                             FixedHeading, PyNum(1),
                             [text |-> "Target location - observe", animal |-> animal_type],
                             PyNone, PyNone, PyNone) >>
        total_distance == calculate_total_distance(waypoints)
    IN  RoutePlan(
            RouteId("hunting", now), "hunting", waypoints,
            total_distance, total_distance \div 3, 80,
            PyStrs(<<"Approach from downwind to avoid detection",
                     "Use terrain for cover when possible",
                     "Maintain legal altitude limits",
                     "Plan escape routes",
                     "Monitor wind direction and adjust approach">>),
            PyStr("Early morning or late afternoon when animals are most active. Consider wind direction for approach."),
            PyStrs(<<"Use terrain features (ridges, valleys) for cover",
                     "Avoid open areas when possible",
                     "Plan approach to minimize noise and visual disturbance">>))

\* the loop "for i in range(1, waypoint_count)" of plan_general_route
RECURSIVE general_waypoints(_, _, _, _, _)
general_waypoints(waypoints, start_pos, end_pos, i, waypoint_count) ==
    IF i >= waypoint_count THEN waypoints
    ELSE
      LET last == waypoints[Len(waypoints)]
          wp == CivilianWaypoint(
              start_pos.lat + (i * (end_pos.lat - start_pos.lat)) \div waypoint_count,
              start_pos.lon + (i * (end_pos.lon - start_pos.lon)) \div waypoint_count,
              PyNum(50),
              calculate_heading([lat |-> last.lat, lon |-> last.lon], end_pos),
              PyNum(cruise_speed),
              DescN("Waypoint", i),
              PyNone, PyNone, PyNone)
      IN  general_waypoints(Append(waypoints, wp), start_pos, end_pos, i + 1, waypoint_count)

\* the route plan_general_route builds when self.approach_speed can be read
general_route(start_pos, end_pos, waypoint_count, approach_speed, now) ==
    LET start == CivilianWaypoint(start_pos.lat, start_pos.lon, PyNum(50), FixedHeading,
                                  PyNum(cruise_speed), Desc("Starting position"),
                                  PyNone, PyNone, PyNone)
        end == CivilianWaypoint(end_pos.lat, end_pos.lon, PyNum(50), FixedHeading,
                                approach_speed, Desc("Destination"),
                                PyNone, PyNone, PyNone)
        waypoints == Append(general_waypoints(<<start>>, start_pos, end_pos, 1, waypoint_count),
                            end)
        total_distance == calculate_total_distance(waypoints)
    IN  RoutePlan(
            RouteId("general", now), "general", waypoints,
            total_distance, total_distance \div cruise_speed, 90,
            PyStrs(<<"Maintain safe altitude", "Follow local regulations",
                     "Monitor weather conditions">>),
            PyStr("Check weather before flight"),
            PyStrs(<<"Ensure clear line of sight">>))

\* get_route_history: one summary per stored route, in order
get_route_history ==
    [i \in 1..Len(generated_routes) |->
        [route_id |-> generated_routes[i].route_id,
         route_type |-> generated_routes[i].route_type,
         waypoint_count |-> Len(generated_routes[i].waypoints),
         total_distance |-> generated_routes[i].total_distance,
         estimated_duration |-> generated_routes[i].estimated_duration,
         safety_score |-> generated_routes[i].safety_score]]

----------------------------------------------------------------------------
(* Inputs of the planning operations *)

StartPositions == {[lat |-> 0, lon |-> 0]}
Positions == {[lat |-> 0, lon |-> 0], [lat |-> 2000, lon |-> 4000], [lat |-> -1000, lon |-> 2000]}

SubjectSequences == UNION {[1..n -> Positions] : n \in 0..MaxSubjects}

FilmingOperations == {"wedding", "advertisement"}

\* filming advice handed to the planner: none, or the dict form of an advice the
\* advisory generator produces
PlannerAdvice ==
    {PyNone,
     get_filming_advice_default(FILMING_WEDDING, EmptyDict, PyNone, PyNone),
     filming_advice_from_json(SlotsToDict(FullSlots)),
     filming_advice_from_json([camera_angles |-> PyStrs(<<>>)]),
     filming_advice_from_json(
         [shot_sequence |-> PyShots(<<Shot("overhead", "Hold over subject", 0)>>)])}

WindDirections == {PyNone, PyNum(0), PyNum(90)}

WaypointCounts == 0..MaxWaypointCount

\* The planner is exercised under two workloads.  "history" draws a sequence of
\* calls from a few inputs and records the operation of the last call; "route"
\* draws its first call from the full input sets, any further call from the few
\* inputs, and records the arguments of the last call.
CallLimit(workload) == IF workload = "route" THEN MaxCalls ELSE MaxRoutes

MayPlan(workload) ==
    IF workload = "route"
    THEN plan_returned + plan_failed < CallLimit(workload)
    ELSE plan_returned < CallLimit(workload) /\ plan_failed < CallLimit(workload)

DrawFrom(workload) ==
    IF workload = "route" /\ plan_returned + plan_failed = 0 THEN "route" ELSE "history"

ArgsOf(workload, c) == IF workload = "route" THEN c ELSE [op |-> c.op]

SubjectsOf(workload) ==
    IF workload = "route" THEN SubjectSequences ELSE {<<p>> : p \in Positions}

OperationsOf(workload) ==
    IF workload = "route" THEN FilmingOperations ELSE {"wedding"}

AdviceOf(workload) ==
    IF workload = "route" THEN PlannerAdvice
    ELSE {PyNone, filming_advice_from_json([camera_angles |-> PyStrs(<<>>)])}

WindsOf(workload) ==
    IF workload = "route" THEN WindDirections ELSE {PyNone}

----------------------------------------------------------------------------
(* CivilianRoutePlanner: the planning operations *)

\* variant: the history is capped and drops its oldest entry
ReturnRoute_capped(route_plan) ==
    /\ generated_routes' = IF Len(generated_routes) >= 1
                           THEN Append(Tail(generated_routes), route_plan)
                           ELSE Append(generated_routes, route_plan)
    /\ plan_result' = Returned(route_plan)
    /\ plan_returned' = plan_returned + 1
    /\ UNCHANGED <<plan_failed, clock, advisorVars, trackerVars, utilVars>>

\* self.generated_routes.append(route_plan); return route_plan
ReturnRoute(route_plan) ==
    /\ generated_routes' = Append(generated_routes, route_plan)
    /\ plan_result' = Returned(route_plan)
    /\ plan_returned' = plan_returned + 1
    /\ UNCHANGED <<plan_failed, clock, advisorVars, trackerVars, utilVars>>

\* an exception leaves the operation before the append
RaiseFromPlan(exception) ==
    /\ plan_result' = Raised(exception)
    /\ plan_failed' = plan_failed + 1
    /\ UNCHANGED <<generated_routes, plan_returned, clock, advisorVars, trackerVars, utilVars>>

plan_filming_route(workload) ==
    /\ MayPlan(workload)
    /\ \E start_pos \in StartPositions, subject_positions \in SubjectsOf(DrawFrom(workload)),
          operation_type \in OperationsOf(DrawFrom(workload)),
          filming_advice \in AdviceOf(DrawFrom(workload)) :
          /\ plan_call' = ArgsOf(workload,
                                  [op |-> "plan_filming_route", start_pos |-> start_pos,
                                   subject_positions |-> subject_positions,
                                   operation_type |-> operation_type,
                                   filming_advice |-> filming_advice])
          /\ IF CameraAngleError(filming_advice) # "none"
             THEN RaiseFromPlan(CameraAngleError(filming_advice))
             ELSE ReturnRoute(filming_route(start_pos, subject_positions, operation_type,
                                            filming_advice, clock))

plan_mustering_route(workload) ==
    /\ MayPlan(workload)
    /\ \E herd_location \in Positions, destination \in Positions :
          /\ plan_call' = ArgsOf(workload,
                                  [op |-> "plan_mustering_route", herd_location |-> herd_location,
                                   destination |-> destination])
          /\ ReturnRoute(mustering_route(herd_location, destination, clock))

plan_hunting_route(workload) ==
    /\ MayPlan(workload)
    /\ \E start_pos \in StartPositions, target_location \in Positions,
          wind_direction \in WindsOf(DrawFrom(workload)) :
          /\ plan_call' = ArgsOf(workload,
                                  [op |-> "plan_hunting_route", start_pos |-> start_pos,
                                   target_location |-> target_location,
                                   wind_direction |-> wind_direction])
          /\ ReturnRoute(hunting_route(start_pos, target_location, "deer", wind_direction, clock))

plan_general_route(workload) ==
    /\ MayPlan(workload)
    /\ \E start_pos \in StartPositions, end_pos \in Positions, waypoint_count \in WaypointCounts :
          /\ plan_call' = ArgsOf(workload,
                                  [op |-> "plan_general_route", start_pos |-> start_pos,
                                   end_pos |-> end_pos, waypoint_count |-> waypoint_count])
          /\ IF "approach_speed" \in PlannerAttributes
             THEN ReturnRoute(general_route(start_pos, end_pos, waypoint_count,
                                            PyNum(cruise_speed), clock))
             ELSE RaiseFromPlan("AttributeError")

\* time.time() moves on between calls
Tick ==
    /\ clock < MaxClock
    /\ clock' = clock + 1
    /\ UNCHANGED <<generated_routes, plan_result, plan_returned, plan_failed, plan_call, advisorVars, trackerVars, utilVars>>

NextPlanner ==
    \/ plan_filming_route("history")
    \/ plan_mustering_route("history")
    \/ plan_hunting_route("history")
    \/ plan_general_route("history")
    \/ Tick

InitPlannerOnly == Init /\ claude_integration = NoIntegration

\* sequences of planning calls on one planner
SpecPlanner == InitPlannerOnly /\ [][NextPlanner]_vars

NextRoute ==
    \/ plan_filming_route("route")
    \/ plan_mustering_route("route")
    \/ plan_hunting_route("route")
    \/ plan_general_route("route")
    \/ Tick

\* one planning call over the full input sets
SpecRoute == InitPlannerOnly /\ [][NextRoute]_vars

----------------------------------------------------------------------------
(* FilmingTracker.  TrackedSubject objects are mutable and shared: the live *)
(* map, the tracking history and the returned lists hold references        *)
(* (indices into objects), so an update in place shows through all of them. *)
(* Scores and confidences are in thousandths (0.7 is 700).                  *)

lost_timeout == 2
framing_threshold == 700
composition_threshold == 600
frame_width == 1920
frame_height == 1080

TrackedSubject(subject_id, position, bbox, confidence, frame_number, timestamp, camera_angle, framing_quality, tracking_status) ==
    [subject_id |-> subject_id, position |-> position, bbox |-> bbox, confidence |-> confidence,
     frame_number |-> frame_number, timestamp |-> timestamp, camera_angle |-> camera_angle,
     framing_quality |-> framing_quality, tracking_status |-> tracking_status]

\* the FilmingAdvice dataclass of filming_tracker.py (real-time advice)
RealTimeAdvice(advice_type, message, priority, timestamp) ==
    [advice_type |-> advice_type, message |-> message, priority |-> priority,
     timestamp |-> timestamp]

\* subject ids: a given name, or f"subject_{n}"
SubjectId(name) == [name |-> name]
GeneratedId(n) == [name |-> "subject", n |-> n]

Abs(x) == IF x < 0 THEN 0 - x ELSE x
Max(a, b) == IF a > b THEN a ELSE b
Min(a, b) == IF a < b THEN a ELSE b

calculate_framing_quality(detection) ==
    LET bbox == DictGet(detection, "bbox", <<0, 0, 0, 0>>)
    IN  IF Len(bbox) < 4 THEN 500
        ELSE
          LET x1 == bbox[1]
              y1 == bbox[2]
              x2 == bbox[3]
              y2 == bbox[4]
              width == x2 - x1
              height == y2 - y1
              \* 1 - |center_x - frame_width / 2| / (frame_width / 2), center_x = (x1 + x2) / 2
              center_score == Max(0, 1000 - (Abs(x1 + x2 - frame_width) * 1000) \div frame_width)
              area == width * height
              frame_area == frame_width * frame_height
              size_score == IF 10 * area > frame_area /\ 2 * area < frame_area THEN 1000
                            ELSE IF 20 * area < frame_area THEN 300
                            ELSE IF 10 * area > 7 * frame_area THEN 500
                            ELSE 700
              confidence == DictGet(detection, "confidence", 500)
              quality == (4 * center_score + 4 * size_score + 2 * confidence) \div 10
          IN  Min(1000, Max(0, quality))

determine_camera_angle(detection, camera_position) ==
    IF ~Truthy(camera_position) THEN "unknown"
    ELSE LET bbox == DictGet(detection, "bbox", <<0, 0, 0, 0>>)
         IN  IF Len(bbox) < 4 THEN "unknown"
             ELSE IF 10 * bbox[2] < 3 * frame_height THEN "overhead"
             ELSE IF 10 * bbox[2] < 6 * frame_height THEN "side"
             ELSE "low_angle"

DefaultPosition == [lat |-> 0, lon |-> 0, alt |-> 0]

\* the loop "for detection in detections" of update_tracking, from detection i on;
\* S holds objects, tracked_subjects, tracking_history and updated_subjects
RECURSIVE match_detections(_, _, _, _, _, _)
match_detections(S, detections, i, frame_number, camera_position, current_time) ==
    IF i > Len(detections) THEN S
    ELSE
      LET detection == detections[i]
          given == DictGet(detection, "subject_id", PyNone)
          subject_id == IF given # PyNone THEN given
                        ELSE GeneratedId(Cardinality(DOMAIN S.tracked_subjects))
          framing_quality == calculate_framing_quality(detection)
          camera_angle == determine_camera_angle(detection, camera_position)
          known == subject_id \in DOMAIN S.tracked_subjects
          ref == IF known THEN S.tracked_subjects[subject_id] ELSE Len(S.objects) + 1
          tracked ==
              IF known
              THEN LET old == S.objects[ref]
                   IN  TrackedSubject(old.subject_id,
                                      IF Truthy(camera_position) THEN camera_position
                                                                 ELSE old.position,
                                      DictGet(detection, "bbox", old.bbox),
                                      DictGet(detection, "confidence", old.confidence),
                                      frame_number, current_time, camera_angle,
                                      framing_quality, "tracking")
              ELSE TrackedSubject(subject_id,
                                  IF Truthy(camera_position) THEN camera_position
                                                             ELSE DefaultPosition,
                                  DictGet(detection, "bbox", <<0, 0, 0, 0>>),
                                  DictGet(detection, "confidence", 0),
                                  frame_number, current_time, camera_angle,
                                  framing_quality, "tracking")
          T == [objects |-> IF known THEN [S.objects EXCEPT ![ref] = tracked]
                                     ELSE Append(S.objects, tracked),
                tracked_subjects |->
                    [id \in DOMAIN S.tracked_subjects \cup {subject_id} |->
                        IF id = subject_id THEN ref ELSE S.tracked_subjects[id]],
                tracking_history |-> Append(S.tracking_history, ref),
                updated_subjects |-> Append(S.updated_subjects, ref)]
      IN  match_detections(T, detections, i + 1, frame_number, camera_position, current_time)

\* ids of the live subjects whose last detection is older than lost_timeout
LostIds(S, current_time) ==
    {id \in DOMAIN S.tracked_subjects :
        current_time - S.objects[S.tracked_subjects[id]].timestamp > lost_timeout}

\* variant: a lost subject is marked but stays in the live map
check_lost_tracks_keep(S, current_time) ==
    LET lost == LostIds(S, current_time)
        lost_refs == {S.tracked_subjects[id] : id \in lost}
    IN  [objects |-> [r \in DOMAIN S.objects |->
                        IF r \in lost_refs
                        THEN [S.objects[r] EXCEPT !.tracking_status = "lost"]
                        ELSE S.objects[r]],
         tracked_subjects |-> S.tracked_subjects,
         tracking_history |-> S.tracking_history,
         updated_subjects |-> S.updated_subjects,
         lost_subjects |-> lost_refs]

\* variant: eviction also drops the subject's entries from the history
check_lost_tracks_purge(S, current_time) ==
    LET lost == LostIds(S, current_time)
        lost_refs == {S.tracked_subjects[id] : id \in lost}
    IN  [objects |-> [r \in DOMAIN S.objects |->
                        IF r \in lost_refs
                        THEN [S.objects[r] EXCEPT !.tracking_status = "lost"]
                        ELSE S.objects[r]],
         tracked_subjects |-> [id \in DOMAIN S.tracked_subjects \ lost |-> S.tracked_subjects[id]],
         tracking_history |-> SelectSeq(S.tracking_history, LAMBDA r : r \notin lost_refs),
         updated_subjects |-> S.updated_subjects,
         lost_subjects |-> lost_refs]

\* the loop "Check for lost tracks": mark lost, delete from the live map
check_lost_tracks(S, current_time) ==
    LET lost == LostIds(S, current_time)
        lost_refs == {S.tracked_subjects[id] : id \in lost}
    IN  [objects |-> [r \in DOMAIN S.objects |->
                        IF r \in lost_refs
                        THEN [S.objects[r] EXCEPT !.tracking_status = "lost"]
                        ELSE S.objects[r]],
         tracked_subjects |-> [id \in DOMAIN S.tracked_subjects \ lost |-> S.tracked_subjects[id]],
         tracking_history |-> S.tracking_history,
         updated_subjects |-> S.updated_subjects,
         lost_subjects |-> lost_refs]

\* the ai_advisor argument: None or a CivilianAIAdvisor with its capability
CivilianAIAdvisor(ci) == [claude_integration |-> ci]
TrackerAdvisors ==
    {PyNone} \cup {CivilianAIAdvisor(ci) :
                      ci \in {NoIntegration, ClaudeIntegration(TRUE), OtherCapability}}

\* get_general_advice suspends only in a service call that is really made
AdvisorSuspends(advisor) ==
    /\ advisor.claude_integration # NoIntegration
    /\ advisor.claude_integration.kind = "ClaudeIntegration" => IsReady(advisor.claude_integration)

GeneralCall == [op |-> "get_general_advice"]

\* outcome of get_general_advice when it does not suspend
AdviceWithoutService(advisor) ==
    IF advisor.claude_integration = NoIntegration
    THEN Returned(DefaultOf(GeneralCall))
    ELSE AfterService(GeneralCall, Returns(NotAvailableText))

\* a text longer than 200 characters carries its length
LongAdviceText == [prose |-> "Keep the subject on a thirds line ...", len |-> 450]

AdvisoryHttpOutcomes ==
    {[http |-> "text", text |-> LongAdviceText], [http |-> "timeout"]}

\* outcomes of the service call made for the tracker's question
AdvisoryOutcomes(ci) ==
    IF ci.kind = "ClaudeIntegration"
    THEN {Returns(generate_expert_advice(h)) : h \in AdvisoryHttpOutcomes}
    ELSE {Returns(LongAdviceText), Raises("TimeoutError")}

\* ai_advice[:200]; the literal texts of the model are shorter than 200 characters
Truncate200(text) ==
    IF "len" \in DOMAIN text /\ text.len > 200 THEN [text EXCEPT !.len = 200] ELSE text

FramingMessage(tracked) ==
    [text |-> "framing quality low", subject_id |-> tracked.subject_id,
     quality |-> tracked.framing_quality]
LostMessage(tracked) == [text |-> "lost", subject_id |-> tracked.subject_id]

\* variant: the framing message uses the composition threshold 0.6
advice_before_call_composition_threshold(tracked, current_time) ==
    (IF tracked.framing_quality < composition_threshold
     THEN <<RealTimeAdvice("framing", FramingMessage(tracked), "medium", current_time)>>
     ELSE <<>>)
    \o
    (IF tracked.tracking_status = "lost"
     THEN <<RealTimeAdvice("movement", LostMessage(tracked), "high", current_time)>>
     ELSE <<>>)

\* the advice _generate_tracking_advice appends for one subject before its advisory call
advice_before_call(tracked, current_time) ==
    (IF tracked.framing_quality < framing_threshold
     THEN <<RealTimeAdvice("framing", FramingMessage(tracked), "medium", current_time)>>
     ELSE <<>>)
    \o
    (IF tracked.tracking_status = "lost"
     THEN <<RealTimeAdvice("movement", LostMessage(tracked), "high", current_time)>>
     ELSE <<>>)

\* the advice appended once get_general_advice has ended (nothing when it raised)
advice_after_call(advice_outcome, current_time) ==
    IF HasReturned(advice_outcome)
    THEN <<RealTimeAdvice("composition", Truncate200(advice_outcome.returned), "low",
                          current_time)>>
    ELSE <<>>

WantsComposition(advisor, tracked) ==
    advisor # PyNone /\ tracked.framing_quality < composition_threshold

\* the loop of _generate_tracking_advice from subject k on, up to its end
\* (suspended FALSE) or to the advisory call it suspends in (suspended TRUE)
RECURSIVE generate_tracking_advice(_, _, _, _, _, _)
generate_tracking_advice(advice_list, k, tracked_list, objs, advisor, current_time) ==
    IF k > Len(tracked_list)
    THEN [advice_list |-> advice_list, k |-> k, suspended |-> FALSE]
    ELSE
      LET tracked == objs[tracked_list[k]]
          first == advice_list \o advice_before_call(tracked, current_time)
      IN  IF ~WantsComposition(advisor, tracked)
          THEN generate_tracking_advice(first, k + 1, tracked_list, objs, advisor, current_time)
          ELSE IF AdvisorSuspends(advisor)
          THEN [advice_list |-> first, k |-> k, suspended |-> TRUE]
          ELSE generate_tracking_advice(
                   first \o advice_after_call(AdviceWithoutService(advisor), current_time),
                   k + 1, tracked_list, objs, advisor, current_time)

get_tracking_status ==
    [active_tracks |-> Cardinality(DOMAIN tracked_subjects),
     total_tracked |-> Len(tracking_history),
     advice_count |-> Len(advice_history),
     subjects |-> {[subject_id |-> objects[tracked_subjects[id]].subject_id,
                    tracking_status |-> objects[tracked_subjects[id]].tracking_status,
                    framing_quality |-> objects[tracked_subjects[id]].framing_quality,
                    camera_angle |-> objects[tracked_subjects[id]].camera_angle] :
                   id \in DOMAIN tracked_subjects}]

----------------------------------------------------------------------------
(* Inputs of update_tracking.  Boxes are in pixels of the 1920 x 1080 frame. *)

BrideCentered ==
    [subject_id |-> SubjectId("bride"), bbox |-> <<660, 240, 1260, 840>>, confidence |-> 1000]
BrideLower ==
    [subject_id |-> SubjectId("bride"), bbox |-> <<660, 400, 1260, 900>>, confidence |-> 900]
GroomAtEdge ==
    [subject_id |-> SubjectId("groom"), bbox |-> <<0, 700, 100, 800>>, confidence |-> 500]
\* centre at a quarter of the frame width, confidence 0.4: quality 0.68
BrideOffCentre ==
    [subject_id |-> SubjectId("bride"), bbox |-> <<180, 240, 780, 840>>, confidence |-> 400]
\* the documented detection format: no subject_id
Unnamed == [bbox |-> <<460, 100, 1460, 700>>, confidence |-> 800]
\* centred, 480 x 432: exactly a tenth of the frame area
TenthOfFrame == [bbox |-> <<720, 324, 1200, 756>>, confidence |-> 500]

CameraPosition == [lat |-> 2000, lon |-> 4000, alt |-> 30]

Frame(detections, camera_position) ==
    [detections |-> detections, camera_position |-> camera_position]

\* the frames fed to update_tracking: detections and camera position
FrameInputs ==
    {Frame(<<>>, PyNone),
     Frame(<<BrideCentered>>, CameraPosition),
     Frame(<<BrideLower>>, PyNone),
     Frame(<<GroomAtEdge>>, CameraPosition),
     Frame(<<Unnamed>>, PyNone),
     Frame(<<GroomAtEdge, BrideCentered>>, CameraPosition),
     Frame(<<Unnamed, GroomAtEdge>>, PyNone),
     Frame(<<BrideOffCentre>>, CameraPosition),
     Frame(<<TenthOfFrame>>, CameraPosition)}

\* The tracker is exercised under three workloads: "frame" draws one call from all
\* the frames, "lifecycle" draws a sequence of calls from a few frames, "ids" draws
\* a longer sequence of calls from the frames whose detections carry no subject_id.
FrameLimit(workload) ==
    IF workload = "frame" THEN MaxCalls
    ELSE IF workload = "ids" THEN MaxUnnamedFrames
    ELSE MaxFrames

FramesOf(workload) ==
    IF workload = "frame" THEN FrameInputs
    ELSE IF workload = "ids" THEN {Frame(<<>>, PyNone), Frame(<<Unnamed>>, PyNone)}
    ELSE {Frame(<<>>, PyNone),
          Frame(<<BrideCentered>>, CameraPosition),
          Frame(<<GroomAtEdge>>, CameraPosition),
          Frame(<<Unnamed>>, PyNone)}

----------------------------------------------------------------------------
(* FilmingTracker: operations *)

\* variant: a stopped tracker still runs the lost check
UpdateTracking_stopped_evicts(detections, frame_number, camera_position, current_time) ==
    LET before == [objects |-> objects, tracked_subjects |-> tracked_subjects,
                   tracking_history |-> tracking_history, advice_history |-> advice_history]
        entered == [op |-> "update_tracking", detections |-> detections,
                    frame_number |-> frame_number, camera_position |-> camera_position,
                    current_time |-> current_time, before |-> before, ran |-> running,
                    updated_subjects |-> <<>>, lost_subjects |-> {},
                    advice_list |-> <<>>, k |-> 0]
    IN  IF ~running
        THEN LET S0 == [objects |-> objects, tracked_subjects |-> tracked_subjects,
                        tracking_history |-> tracking_history, updated_subjects |-> <<>>]
                 S2 == check_lost_tracks(S0, current_time)
             IN  /\ track_call' = entered
                 /\ track_result' = Returned(<<>>)
                 /\ objects' = S2.objects
                 /\ tracked_subjects' = S2.tracked_subjects
                 /\ UNCHANGED <<tracking_history, advice_history, tracker_pc>>
        ELSE
          LET S0 == [objects |-> objects, tracked_subjects |-> tracked_subjects,
                     tracking_history |-> tracking_history, updated_subjects |-> <<>>]
              S1 == match_detections(S0, detections, 1, frame_number, camera_position,
                                     current_time)
              S2 == check_lost_tracks(S1, current_time)
              G == IF Len(S2.updated_subjects) > 0
                   THEN generate_tracking_advice(<<>>, 1, S2.updated_subjects, S2.objects,
                                                 ai_advisor, current_time)
                   ELSE [advice_list |-> <<>>, k |-> 0, suspended |-> FALSE]
          IN  /\ objects' = S2.objects
              /\ tracked_subjects' = S2.tracked_subjects
              /\ tracking_history' = S2.tracking_history
              /\ track_call' = [entered EXCEPT !.updated_subjects = S2.updated_subjects,
                                               !.lost_subjects = S2.lost_subjects,
                                               !.advice_list = G.advice_list,
                                               !.k = G.k]
              /\ IF G.suspended
                 THEN /\ tracker_pc' = "awaiting"
                      /\ track_result' = Pending
                      /\ UNCHANGED advice_history
                 ELSE /\ tracker_pc' = "idle"
                      /\ advice_history' = advice_history \o G.advice_list
                      /\ track_result' = Returned(S2.updated_subjects)

\* update_tracking up to its return or to the advisory call it suspends in;
\* current_time is its time.time() reading
UpdateTracking(detections, frame_number, camera_position, current_time) ==
    LET before == [objects |-> objects, tracked_subjects |-> tracked_subjects,
                   tracking_history |-> tracking_history, advice_history |-> advice_history]
        entered == [op |-> "update_tracking", detections |-> detections,
                    frame_number |-> frame_number, camera_position |-> camera_position,
                    current_time |-> current_time, before |-> before, ran |-> running,
                    updated_subjects |-> <<>>, lost_subjects |-> {},
                    advice_list |-> <<>>, k |-> 0]
    IN  IF ~running
        THEN /\ track_call' = entered
             /\ track_result' = Returned(<<>>)
             /\ UNCHANGED <<objects, tracked_subjects, tracking_history, advice_history,
                            tracker_pc>>
        ELSE
          LET S0 == [objects |-> objects, tracked_subjects |-> tracked_subjects,
                     tracking_history |-> tracking_history, updated_subjects |-> <<>>]
              S1 == match_detections(S0, detections, 1, frame_number, camera_position,
                                     current_time)
              S2 == check_lost_tracks(S1, current_time)
              G == IF Len(S2.updated_subjects) > 0
                   THEN generate_tracking_advice(<<>>, 1, S2.updated_subjects, S2.objects,
                                                 ai_advisor, current_time)
                   ELSE [advice_list |-> <<>>, k |-> 0, suspended |-> FALSE]
          IN  /\ objects' = S2.objects
              /\ tracked_subjects' = S2.tracked_subjects
              /\ tracking_history' = S2.tracking_history
              /\ track_call' = [entered EXCEPT !.updated_subjects = S2.updated_subjects,
                                               !.lost_subjects = S2.lost_subjects,
                                               !.advice_list = G.advice_list,
                                               !.k = G.k]
              /\ IF G.suspended
                 THEN /\ tracker_pc' = "awaiting"
                      /\ track_result' = Pending
                      /\ UNCHANGED advice_history
                 ELSE /\ tracker_pc' = "idle"
                      /\ advice_history' = advice_history \o G.advice_list
                      /\ track_result' = Returned(S2.updated_subjects)

update_tracking(workload) ==
    /\ tracker_pc = "idle"
    /\ frames < FrameLimit(workload)
    /\ \E frame \in FramesOf(workload), current_time \in tracker_time..MaxTime :
          /\ UpdateTracking(frame.detections, frames + 1, frame.camera_position, current_time)
          /\ tracker_time' = current_time
    /\ frames' = frames + 1
    /\ UNCHANGED <<running, ai_advisor, advisorVars, plannerVars, utilVars>>

\* the awaited get_general_advice call ends; update_tracking runs on to its return
\* or to its next advisory call
advisory_call_ends ==
    /\ tracker_pc = "awaiting"
    /\ \E outcome \in AdvisoryOutcomes(ai_advisor.claude_integration) :
          LET advice_outcome == AfterService(GeneralCall, outcome)
              resumed == track_call.advice_list
                             \o advice_after_call(advice_outcome, track_call.current_time)
              G == generate_tracking_advice(resumed, track_call.k + 1,
                                            track_call.updated_subjects, objects,
                                            ai_advisor, track_call.current_time)
          IN  /\ track_call' = [track_call EXCEPT !.advice_list = G.advice_list, !.k = G.k]
              /\ IF G.suspended
                 THEN UNCHANGED <<tracker_pc, track_result, advice_history>>
                 ELSE /\ tracker_pc' = "idle"
                      /\ advice_history' = advice_history \o G.advice_list
                      /\ track_result' = Returned(track_call.updated_subjects)
    /\ UNCHANGED <<running, ai_advisor, objects, tracked_subjects, tracking_history, frames,
                   tracker_time, advisorVars, plannerVars, utilVars>>

\* the task running update_tracking is cancelled while it is suspended:
\* CancelledError is not an Exception, so no handler catches it
cancel_update_tracking ==
    /\ tracker_pc = "awaiting"
    /\ tracker_pc' = "idle"
    /\ track_result' = Raised("CancelledError")
    /\ UNCHANGED <<running, ai_advisor, objects, tracked_subjects, tracking_history,
                   advice_history, track_call, frames, tracker_time, advisorVars, plannerVars, utilVars>>

clear_history ==
    /\ tracker_pc = "idle"
    /\ tracking_history' = <<>>
    /\ advice_history' = <<>>
    /\ tracked_subjects' = EmptyDict
    /\ objects' = <<>>
    /\ track_call' = NoCall
    /\ track_result' = Pending
    /\ UNCHANGED <<running, ai_advisor, tracker_pc, frames, tracker_time, advisorVars,
                   plannerVars, utilVars>>

\* FilmingTracker.start
tracker_start ==
    /\ tracker_pc = "idle"
    /\ running' = TRUE
    /\ UNCHANGED <<ai_advisor, objects, tracked_subjects, tracking_history, advice_history,
                   tracker_pc, track_call, track_result, frames, tracker_time, advisorVars,
                   plannerVars, utilVars>>

\* FilmingTracker.shutdown
tracker_shutdown ==
    /\ tracker_pc = "idle"
    /\ running' = FALSE
    /\ UNCHANGED <<ai_advisor, objects, tracked_subjects, tracking_history, advice_history,
                   tracker_pc, track_call, track_result, frames, tracker_time, advisorVars,
                   plannerVars, utilVars>>

NextTracker ==
    \/ update_tracking("lifecycle")
    \/ advisory_call_ends
    \/ cancel_update_tracking
    \/ clear_history
    \/ tracker_start
    \/ tracker_shutdown

InitTrackerOnly ==
    /\ InitAdvisor
    /\ claude_integration = NoIntegration
    /\ InitPlanner
    /\ InitTrackerState
    /\ ai_advisor \in TrackerAdvisors
    /\ InitMonitor
    /\ InitAlerts
    /\ InitServer

\* one tracker fed with a sequence of frames, with or without an advisor
SpecTracker == InitTrackerOnly /\ [][NextTracker]_vars

NextFrame ==
    \/ update_tracking("frame")
    \/ advisory_call_ends
    \/ cancel_update_tracking
    \/ clear_history
    \/ tracker_start
    \/ tracker_shutdown

\* one frame, drawn from all the frames of the model
SpecFrame == InitTrackerOnly /\ [][NextFrame]_vars

\* the detections of the "ids" workload are well framed, so that update_tracking
\* never waits for an advisory call
NextIds ==
    \/ update_tracking("ids")
    \/ clear_history
    \/ tracker_start
    \/ tracker_shutdown

InitIds ==
    /\ InitAdvisor
    /\ claude_integration = NoIntegration
    /\ InitPlanner
    /\ InitTracker
    /\ InitMonitor
    /\ InitAlerts
    /\ InitServer

\* one tracker without advisor, fed with detections in the documented format
SpecIds == InitIds /\ [][NextIds]_vars

----------------------------------------------------------------------------
(* AlertManager (alerting.py): alerts and thresholds.  Latencies are whole  *)
(* milliseconds, cpu and memory whole percents; alert timestamps are the    *)
(* number of the check that wrote them.                                     *)

thresholds ==
    [latency |-> [warning |-> 200, critical |-> 500],
     cpu_percent |-> [warning |-> 80, critical |-> 95],
     memory_percent |-> [warning |-> 80, critical |-> 95],
     error_rate |-> [warning |-> 1, critical |-> 5]]

Alert(id, severity, message, metric, value, threshold, timestamp, resolved) ==
    [id |-> id, severity |-> severity, message |-> message, metric |-> metric,
     value |-> value, threshold |-> threshold, timestamp |-> timestamp, resolved |-> resolved]

\* the f-string messages: their text and the value they quote
AlertMessage(text, value) == [text |-> text, value |-> value]

\* _create_alert: an unresolved alert of that id is updated in place, else a
\* new alert takes the id; A is the alerts dict, the result the dict afterwards
create_alert(A, alert_id, severity, message, metric, value, threshold, timestamp) ==
    IF alert_id \in DOMAIN A /\ ~A[alert_id].resolved
    THEN [A EXCEPT ![alert_id] = [@ EXCEPT !.message = message, !.value = value,
                                            !.timestamp = timestamp]]
    ELSE [id \in DOMAIN A \cup {alert_id} |->
            IF id = alert_id
            THEN Alert(alert_id, severity, message, metric, value, threshold, timestamp, FALSE)
            ELSE A[id]]

\* "Check latency": the alert id raised for the latency statistics, if any
latency_alert(latency_stats) ==
    IF DictGet(latency_stats, "count", 0) > 0
    THEN IF DictGet(latency_stats, "p95", 0) > thresholds.latency.critical
         THEN <<"high_latency_critical">>
         ELSE IF DictGet(latency_stats, "mean", 0) > thresholds.latency.warning
         THEN <<"high_latency_warning">>
         ELSE <<>>
    ELSE <<>>

\* "Check system metrics": one of the two if/elif ladders
system_alert(metric, value, critical_id, warning_id) ==
    IF value > thresholds[metric].critical THEN <<critical_id>>
    ELSE IF value > thresholds[metric].warning THEN <<warning_id>>
    ELSE <<>>

\* the arguments of the _create_alert call made for an alert id
AlertArguments(alert_id, answer) ==
    LET latency_stats == DictGet(answer, "latency", EmptyDict)
        system_metrics == DictGet(answer, "system", EmptyDict)
        cpu_percent == DictGet(system_metrics, "cpu_percent", 0)
        memory_percent == DictGet(system_metrics, "memory_percent", 0)
    IN  CASE alert_id = "high_latency_critical" ->
               [severity |-> "critical", metric |-> "latency",
                message |-> AlertMessage("P95 latency is critically high", latency_stats.p95),
                value |-> latency_stats.p95, threshold |-> thresholds.latency.critical]
          [] alert_id = "high_latency_warning" ->
               [severity |-> "warning", metric |-> "latency",
                message |-> AlertMessage("Mean latency is high", latency_stats.mean),
                value |-> latency_stats.mean, threshold |-> thresholds.latency.warning]
          [] alert_id = "high_cpu_critical" ->
               [severity |-> "critical", metric |-> "cpu_percent",
                message |-> AlertMessage("CPU usage is critically high", cpu_percent),
                value |-> cpu_percent, threshold |-> thresholds.cpu_percent.critical]
          [] alert_id = "high_cpu_warning" ->
               [severity |-> "warning", metric |-> "cpu_percent",
                message |-> AlertMessage("CPU usage is high", cpu_percent),
                value |-> cpu_percent, threshold |-> thresholds.cpu_percent.warning]
          [] alert_id = "high_memory_critical" ->
               [severity |-> "critical", metric |-> "memory_percent",
                message |-> AlertMessage("Memory usage is critically high", memory_percent),
                value |-> memory_percent, threshold |-> thresholds.memory_percent.critical]
          [] OTHER ->
               [severity |-> "warning", metric |-> "memory_percent",
                message |-> AlertMessage("Memory usage is high", memory_percent),
                value |-> memory_percent, threshold |-> thresholds.memory_percent.warning]

\* the _create_alert calls of check_metrics, in order, from call i on
RECURSIVE create_alerts(_, _, _, _, _)
create_alerts(A, ids, i, answer, timestamp) ==
    IF i > Len(ids) THEN A
    ELSE LET a == AlertArguments(ids[i], answer)
         IN  create_alerts(create_alert(A, ids[i], a.severity, a.message, a.metric, a.value,
                                        a.threshold, timestamp),
                           ids, i + 1, answer, timestamp)

\* check_metrics from the answer of monitor.get_all_metrics() on: the ids of the
\* alerts it returns and the alerts dict it leaves (no callback is registered)
evaluate_metrics(A, answer, timestamp) ==
    LET system_metrics == DictGet(answer, "system", EmptyDict)
        ids == latency_alert(DictGet(answer, "latency", EmptyDict))
               \o system_alert("cpu_percent", DictGet(system_metrics, "cpu_percent", 0),
                               "high_cpu_critical", "high_cpu_warning")
               \o system_alert("memory_percent", DictGet(system_metrics, "memory_percent", 0),
                               "high_memory_critical", "high_memory_warning")
    IN  [alerts |-> create_alerts(A, ids, 1, answer, timestamp), returned |-> ids]

get_active_alerts == {alerts[id] : id \in {i \in DOMAIN alerts : ~alerts[i].resolved}}

----------------------------------------------------------------------------
(* PerformanceMonitor (performance_monitor.py) under several threads.  Each *)
(* thread has a stack of activations; an activation is a function of the    *)
(* monitor (or check_metrics of the alert manager), the place it has        *)
(* reached, its argument and what it has gathered.  `with self.lock` is an  *)
(* acquire of a non-reentrant lock, held until the block is left.           *)

Activation(fn, at, arg) == [fn |-> fn, at |-> at, arg |-> arg, got |-> EmptyDict]

Top(t) == stack[t][Len(stack[t])]

\* sum of a list of numbers
RECURSIVE SumOf(_)
SumOf(data) == IF data = <<>> THEN 0 ELSE Head(data) + SumOf(Tail(data))

LessThan(a, b) == a < b

\* the statistics get_latency_stats computes from its data list; int(n * 0.95) is
\* a zero-based index
latency_stats_of(data) ==
    IF data = <<>>
    THEN [count |-> 0, min |-> 0, max |-> 0, mean |-> 0, p50 |-> 0, p95 |-> 0, p99 |-> 0]
    ELSE LET sorted_data == SortSeq(data, LessThan)
             n == Len(sorted_data)
         IN  [count |-> n, min |-> sorted_data[1], max |-> sorted_data[n],
              mean |-> SumOf(data) \div n,
              p50 |-> sorted_data[(n * 50) \div 100 + 1],
              p95 |-> sorted_data[(n * 95) \div 100 + 1],
              p99 |-> sorted_data[(n * 99) \div 100 + 1]]

\* the data get_latency_stats reads: one operation's latencies, or all of them
latency_data(operation) ==
    IF operation # PyNone THEN DictGet(metrics, operation.str, <<>>) ELSE latency_history

\* the dict get_system_metrics returns for a psutil reading (None: psutil is missing
\* or fails); uptime is not modelled
system_metrics_of(reading) ==
    IF reading = PyNone THEN EmptyDict
    ELSE [cpu_percent |-> reading.cpu_percent, memory_percent |-> reading.memory_percent]

\* inputs: latencies in ms and psutil readings in percent
Latencies == {100, 300, 600}
Readings == {[cpu_percent |-> 50, memory_percent |-> 50],
             [cpu_percent |-> 85, memory_percent |-> 50],
             [cpu_percent |-> 97, memory_percent |-> 97]}

\* the activations a thread can start: the public operations and their arguments
Entries ==
    {Activation("record_latency", "acquire", l) : l \in Latencies}
    \cup {Activation("get_latency_stats", "acquire", PyNone),
          Activation("get_all_metrics", "acquire", PyNone),
          Activation("check_metrics", "entered", PyNone),
          Activation("get_system_metrics", "unlocked", PyNone)}
    \cup {Activation("get_system_metrics", "acquire", r) : r \in Readings}

\* a thread calls an operation of the monitor, or check_metrics
monitor_call(t) ==
    /\ stack[t] = <<>>
    /\ monitor_calls < MaxMonitorCalls
    /\ \E a \in Entries : stack' = [stack EXCEPT ![t] = <<a>>]
    /\ monitor_calls' = monitor_calls + 1
    /\ monitor_result' = [monitor_result EXCEPT ![t] = Pending]
    /\ UNCHANGED <<lock, metrics, latency_history, cpu_history, memory_history, alertVars,
                   advisorVars, plannerVars, trackerVars, serverVars>>

\* `with self.lock:` is entered: threading.Lock blocks until the lock is free,
\* whoever holds it
lock_acquire(t) ==
    /\ stack[t] # <<>>
    /\ Top(t).at = "acquire"
    /\ lock = NoThread
    /\ lock' = t
    /\ stack' = [stack EXCEPT ![t][Len(stack[t])].at = "locked"]
    /\ UNCHANGED <<metrics, latency_history, cpu_history, memory_history, monitor_calls,
                   monitor_result, alertVars, advisorVars, plannerVars, trackerVars, serverVars>>

\* the operations still to report in the dict comprehension of get_all_metrics
PendingOperations(a) == DOMAIN metrics \ DOMAIN DictGet(a.got, "operations", EmptyDict)

\* the call the top activation makes next, if it is at a call
NextCallee(a) ==
    CASE a.fn = "check_metrics" /\ a.at = "entered" ->
            {Activation("get_all_metrics", "acquire", PyNone)}
      [] a.fn = "get_all_metrics" /\ a.at = "locked" ->
            {Activation("get_latency_stats", "acquire", PyNone)}
      [] a.fn = "get_all_metrics" /\ a.at = "system" ->
            {Activation("get_system_metrics", "unlocked", PyNone)}
            \cup {Activation("get_system_metrics", "acquire", r) : r \in Readings}
      [] a.fn = "get_all_metrics" /\ a.at = "operations" ->
            {Activation("get_latency_stats", "acquire", PyStr(op)) : op \in PendingOperations(a)}
      [] OTHER -> {}

\* the top activation calls a function of the monitor
nested_call(t) ==
    /\ stack[t] # <<>>
    /\ \E callee \in NextCallee(Top(t)) :
          stack' = [stack EXCEPT ![t] =
                       Append([stack[t] EXCEPT ![Len(stack[t])].at = "calling"], callee)]
    /\ UNCHANGED <<lock, metrics, latency_history, cpu_history, memory_history, monitor_calls,
                   monitor_result, alertVars, advisorVars, plannerVars, trackerVars, serverVars>>

\* the top activation can run to its return without a call or an acquire
CanReturn(a) ==
    \/ a.at = "locked" /\ a.fn \in {"record_latency", "get_latency_stats", "get_system_metrics"}
    \/ a.at = "unlocked"
    \/ a.fn = "get_all_metrics" /\ a.at = "operations" /\ PendingOperations(a) = {}
    \/ a.fn = "check_metrics" /\ a.at = "answered"

\* the value the top activation returns
ReturnValue(a) ==
    CASE a.fn = "record_latency" -> PyNone
      [] a.fn = "get_latency_stats" -> latency_stats_of(latency_data(a.arg))
      [] a.fn = "get_system_metrics" -> system_metrics_of(a.arg)
      [] a.fn = "get_all_metrics" -> a.got
      [] OTHER -> evaluate_metrics(alerts, a.got, alert_checks + 1).returned

\* the calling activation, resumed with the value its callee returned
Resume(caller, callee, value) ==
    CASE caller.fn = "check_metrics" -> [caller EXCEPT !.at = "answered", !.got = value]
      [] callee.fn = "get_latency_stats" /\ callee.arg = PyNone ->
            [caller EXCEPT !.at = "system", !.got = [latency |-> value]]
      [] callee.fn = "get_system_metrics" ->
            [caller EXCEPT !.at = "operations",
                           !.got = [latency |-> caller.got.latency, system |-> value,
                                    operations |-> EmptyDict]]
      [] OTHER ->
            [caller EXCEPT !.at = "operations",
                           !.got = [latency |-> caller.got.latency, system |-> caller.got.system,
                                    operations |->
                                        [op \in DOMAIN caller.got.operations \cup {callee.arg.str}
                                            |-> IF op = callee.arg.str THEN value
                                                ELSE caller.got.operations[op]]]]

\* the top activation runs to its return: the body of its `with` block, the
\* release of the lock it took, and the hand-over of its value to its caller
monitor_return(t) ==
    /\ stack[t] # <<>>
    /\ CanReturn(Top(t))
    /\ LET a == Top(t)
           n == Len(stack[t])
           value == ReturnValue(a)
       IN  /\ lock' = IF a.fn # "check_metrics" /\ a.at # "unlocked" THEN NoThread ELSE lock
           /\ stack' = [stack EXCEPT ![t] =
                           IF n = 1 THEN <<>>
                           ELSE Append(SubSeq(stack[t], 1, n - 2),
                                       Resume(stack[t][n - 1], a, value))]
           /\ monitor_result' = IF n = 1 THEN [monitor_result EXCEPT ![t] = Returned(value)]
                                ELSE monitor_result
           /\ IF a.fn = "record_latency"
              THEN /\ metrics' = [op \in DOMAIN metrics \cup {"default"} |->
                                    IF op = "default"
                                    THEN Append(DictGet(metrics, op, <<>>), a.arg)
                                    ELSE metrics[op]]
                   /\ latency_history' = Append(latency_history, a.arg)
              ELSE UNCHANGED <<metrics, latency_history>>
           /\ IF a.fn = "get_system_metrics" /\ a.at = "locked"
              THEN /\ cpu_history' = Append(cpu_history, a.arg.cpu_percent)
                   /\ memory_history' = Append(memory_history, a.arg.memory_percent)
              ELSE UNCHANGED <<cpu_history, memory_history>>
           /\ IF a.fn = "check_metrics"
              THEN /\ alerts' = evaluate_metrics(alerts, a.got, alert_checks + 1).alerts
                   /\ alert_checks' = alert_checks + 1
              ELSE UNCHANGED <<alerts, alert_checks>>
    /\ UNCHANGED <<monitor_calls, advisorVars, plannerVars, trackerVars, serverVars>>

NextMonitor ==
    \E t \in Threads :
        \/ monitor_call(t)
        \/ lock_acquire(t)
        \/ nested_call(t)
        \/ monitor_return(t)

\* a thread that can take a step inside the monitor eventually takes it
ThreadRuns(t) == lock_acquire(t) \/ nested_call(t) \/ monitor_return(t)

InitMonitorOnly == Init /\ claude_integration = NoIntegration

\* threads calling the shared monitor, each runnable thread scheduled fairly
SpecMonitor ==
    InitMonitorOnly /\ [][NextMonitor]_vars /\ \A t \in Threads : WF_vars(ThreadRuns(t))

----------------------------------------------------------------------------
(* AlertManager on its own: the answers of the monitor are drawn.  With the *)
(* PerformanceMonitor above, get_all_metrics does not come back to          *)
(* check_metrics; the answers here are those of a monitor that does.        *)

\* latency lists whose statistics the monitor reports
LatencyLists == {<<>>, <<300>>, <<600>>}

\* the dicts monitor.get_all_metrics() answers with
Answers ==
    {[latency |-> latency_stats_of(data), system |-> system_metrics_of(reading),
      operations |-> EmptyDict] : data \in LatencyLists, reading \in Readings \cup {PyNone}}

AlertIds ==
    {"high_latency_critical", "high_latency_warning", "high_cpu_critical", "high_cpu_warning",
     "high_memory_critical", "high_memory_warning"}

\* check_metrics, once monitor.get_all_metrics() has answered
check_metrics ==
    /\ alert_checks < MaxChecks
    /\ \E answer \in Answers :
          LET evaluated == evaluate_metrics(alerts, answer, alert_checks + 1)
          IN  /\ alerts' = evaluated.alerts
              /\ monitor_result' = [monitor_result EXCEPT !["t1"] = Returned(evaluated.returned)]
    /\ alert_checks' = alert_checks + 1
    /\ UNCHANGED <<lock, stack, metrics, latency_history, cpu_history, memory_history,
                   monitor_calls, advisorVars, plannerVars, trackerVars, serverVars>>

\* resolve_alert, for ids with and without an alert
resolve_alert ==
    /\ alert_checks > 0
    /\ \E alert_id \in AlertIds :
          alerts' = IF alert_id \in DOMAIN alerts
                    THEN [alerts EXCEPT ![alert_id].resolved = TRUE]
                    ELSE alerts
    /\ UNCHANGED <<alert_checks, monitorVars, advisorVars, plannerVars, trackerVars, serverVars>>

NextAlerts ==
    \/ check_metrics
    \/ resolve_alert

\* one alert manager, checked and resolved in any order
SpecAlerts == InitMonitorOnly /\ [][NextAlerts]_vars

----------------------------------------------------------------------------
(* ConnectionManager and websocket_endpoint (server.py).  The coroutines   *)
(* run on one event loop: a step runs from one await to the next.           *)

\* the elements of a list
ListItems(list) == {list[i] : i \in DOMAIN list}

\* list.remove(x) inside try/except ValueError: the first occurrence goes, a missing x is ignored
list_remove(list, x) ==
    IF x \notin ListItems(list) THEN list
    ELSE LET at == CHOOSE i \in DOMAIN list : list[i] = x /\ \A j \in 1..(i - 1) : list[j] # x
         IN  SubSeq(list, 1, at - 1) \o SubSeq(list, at + 1, Len(list))

\* the second loop of broadcast: every connection of `disconnected` removed from the list
RECURSIVE remove_disconnected(_, _)
remove_disconnected(list, failed) ==
    IF failed = <<>> THEN list
    ELSE remove_disconnected(list_remove(list, Head(failed)), Tail(failed))

\* broadcast from one step of `for connection in self.active_connections` to the next
\* await: the list iterator yields list[index] while index < len(list), read from the
\* list as it is now; when it is exhausted the failed connections are removed and
\* broadcast returns
broadcast_continue(failed) ==
    IF broadcast_index < Len(active_connections)
    THEN /\ connection' = active_connections[broadcast_index + 1]
         /\ broadcast_index' = broadcast_index + 1
         /\ broadcast_at' = "sending"
         /\ UNCHANGED active_connections
    ELSE /\ connection' = NoConnection
         /\ broadcast_index' = 0
         /\ broadcast_at' = "idle"
         /\ active_connections' = remove_disconnected(active_connections, failed)

\* websocket_endpoint is entered: manager.connect awaits websocket.accept()
connect(w) ==
    /\ websocket[w] = "new"
    /\ websocket' = [websocket EXCEPT ![w] = "accepting"]
    /\ UNCHANGED <<active_connections, broadcast_at, broadcast_index, connection, disconnected,
                   sent, whole_duration, broadcasts, advisorVars, plannerVars, trackerVars,
                   monitorVars, alertVars>>

\* accept() returns: the connection is appended and the endpoint enters its receive loop
accept_returns(w) ==
    /\ websocket[w] = "accepting"
    /\ websocket' = [websocket EXCEPT ![w] = "open"]
    /\ active_connections' = Append(active_connections, w)
    /\ UNCHANGED <<broadcast_at, broadcast_index, connection, disconnected, sent,
                   whole_duration, broadcasts, advisorVars, plannerVars, trackerVars,
                   monitorVars, alertVars>>

\* accept() raises: the exception leaves websocket_endpoint before its try statement
accept_raises(w) ==
    /\ websocket[w] = "accepting"
    /\ websocket' = [websocket EXCEPT ![w] = "closed"]
    /\ UNCHANGED <<active_connections, broadcast_at, broadcast_index, connection, disconnected,
                   sent, whole_duration, broadcasts, advisorVars, plannerVars, trackerVars,
                   monitorVars, alertVars>>

\* the receive loop of websocket_endpoint ends; finally: manager.disconnect(websocket)
disconnect(w) ==
    /\ websocket[w] = "open"
    /\ websocket' = [websocket EXCEPT ![w] = "closed"]
    /\ active_connections' = list_remove(active_connections, w)
    /\ whole_duration' = IF broadcast_at = "sending" THEN whole_duration \ {w} ELSE whole_duration
    /\ UNCHANGED <<broadcast_at, broadcast_index, connection, disconnected, sent, broadcasts,
                   advisorVars, plannerVars, trackerVars, monitorVars, alertVars>>

\* broadcast(message) is called and runs to its first await
broadcast ==
    /\ broadcast_at = "idle"
    /\ broadcasts < MaxBroadcasts
    /\ broadcasts' = broadcasts + 1
    /\ disconnected' = <<>>
    /\ sent' = {}
    /\ whole_duration' = ListItems(active_connections)
    /\ broadcast_continue(<<>>)
    /\ UNCHANGED <<websocket, advisorVars, plannerVars, trackerVars, monitorVars, alertVars>>

\* await connection.send_json(message) returns
send_json_returns ==
    /\ broadcast_at = "sending"
    /\ sent' = sent \cup {connection}
    /\ broadcast_continue(disconnected)
    /\ UNCHANGED <<websocket, disconnected, whole_duration, broadcasts,
                   advisorVars, plannerVars, trackerVars, monitorVars, alertVars>>

\* await connection.send_json(message) raises: the connection is marked for removal
send_json_raises ==
    /\ broadcast_at = "sending"
    /\ disconnected' = Append(disconnected, connection)
    /\ broadcast_continue(disconnected')
    /\ UNCHANGED <<websocket, sent, whole_duration, broadcasts,
                   advisorVars, plannerVars, trackerVars, monitorVars, alertVars>>

NextServer ==
    \/ \E w \in WebSockets : connect(w) \/ accept_returns(w) \/ accept_raises(w) \/ disconnect(w)
    \/ broadcast
    \/ send_json_returns
    \/ send_json_raises

\* clients coming and going while the server broadcasts
SpecServer == InitMonitorOnly /\ [][NextServer]_vars

----------------------------------------------------------------------------
(* Properties of the advisory generator *)

Done(op) == pc = "done" /\ call.op = op

ServiceReturnedText == "text" \in DOMAIN service_outcome
ServiceRaised == "raise" \in DOMAIN service_outcome

\* C1: every public advisory operation returns a value, whatever the reasoning
\* service does (returns any text, raises a timeout, a transport error or any
\* other exception); no exception escapes to the caller.
C1_NoExceptionEscapes ==
    pc = "done" => HasReturned(result)

\* C2: with no reasoning-service capability configured, get_filming_advice
\* returns the default of the requested kind without calling any service and
\* without raising: wedding 25 m, 2 m/s and four shots, advertisement 40 m and
\* 4 m/s, and the value does not depend on location, subject_info or weather.
C2_DefaultWhenAbsent ==
    (Done("get_filming_advice") /\ cap_at_call = NoIntegration) =>
        /\ HasReturned(result)
        /\ invocations = 0
        /\ posts = 0
        /\ result.returned =
              get_filming_advice_default(call.operation_type, EmptyDict, PyNone, PyNone)
        /\ call.operation_type = FILMING_WEDDING =>
              /\ result.returned.recommended_altitude = PyNum(25)
              /\ result.returned.recommended_speed = PyNum(2)
              /\ Len(result.returned.shot_sequence.shots) = 4
        /\ call.operation_type = FILMING_ADVERTISEMENT =>
              /\ result.returned.recommended_altitude = PyNum(40)
              /\ result.returned.recommended_speed = PyNum(4)

C2_Witness ==
    /\ Done("get_filming_advice")
    /\ cap_at_call = NoIntegration
    /\ call.operation_type = FILMING_WEDDING
    /\ call.location # EmptyDict
    /\ call.subject_info # PyNone
    /\ HasReturned(result)

Unparsable(text) ==
    IsDecodeError(json_loads(text)) \/ ~IsJsonObject(json_loads(text))

\* C3: when the configured service returns text that is not JSON, or JSON that
\* is not a key-value object, get_filming_advice returns exactly the advice it
\* returns for the same kind when the capability is absent.
C3_UnparsableGivesDefault ==
    (Done("get_filming_advice") /\ ServiceReturnedText /\ Unparsable(service_outcome.text)) =>
        result = Returned(DefaultOf(call))

C3_Witness ==
    /\ Done("get_filming_advice")
    /\ call.operation_type = FILMING_WEDDING
    /\ service_outcome = Returns(JsonText(JsonArray))
    /\ result = Returned(DefaultOf(call))

NotReadyAtCall ==
    cap_at_call.kind = "ClaudeIntegration" /\ ~IsReady(cap_at_call)

\* C4: with a capability configured but not ready (running is False), each
\* public operation returns the value it returns with no capability at all.
C4_NotReadySameAsAbsent ==
    (pc = "done" /\ NotReadyAtCall) => result = Returned(DefaultOf(call))

ServiceFailed ==
    \/ ServiceRaised
    \/ ServiceReturnedText /\ service_outcome.text \in ErrorTexts

\* C5: when the service call made by get_mustering_advice or get_hunting_advice
\* fails, as a raised exception or as the error text generate_expert_advice
\* returns, the RouteAdvice returned is the default RouteAdvice of that kind.
C5_FailureGivesDefaultRoute ==
    (pc = "done" /\ call.op \in {"get_mustering_advice", "get_hunting_advice"} /\ ServiceFailed) =>
        result = Returned(DefaultOf(call))

\* C6: every FilmingAdvice returned by get_filming_advice has all eight fields
\* resolved to a value, never None, for every service response.
C6_NoNullField ==
    (Done("get_filming_advice") /\ HasReturned(result)) =>
        \A f \in FilmingFields : result.returned[f] # PyNone

ParsedObject ==
    /\ ServiceReturnedText
    /\ ~Unparsable(service_outcome.text)

\* C7: when the response parses but omits a field, get_filming_advice fills
\* that field with the value the default of the requested kind has for it.
C7_MissingFieldFromKindDefault ==
    (Done("get_filming_advice") /\ ParsedObject) =>
        \A f \in FilmingFields \ DOMAIN json_loads(service_outcome.text).obj :
            result.returned[f] = DefaultOf(call)[f]

\* C8: no retry: during one call of a public operation the reasoning service
\* is invoked at most once (one generate_expert_advice call, one HTTP post),
\* also when the invocation fails or returns unparsable text.
C8_NoRetry ==
    /\ invocations <= 1
    /\ posts <= 1
    /\ (pc = "done" /\ cap_at_call # NoIntegration) => invocations = 1

C8_Witness ==
    /\ Done("get_mustering_advice")
    /\ ServiceRaised
    /\ invocations = 1
    /\ result = Returned(DefaultOf(call))

----------------------------------------------------------------------------
(* Properties of the route planner *)

\* C9: no planning operation raises for inputs within the documented
\* constraints (finite coordinates, non-negative waypoint_count, one or more
\* subject positions, advice absent or as the advisory generator produces it);
\* each such call returns a Route.
C9_PlannerNeverRaises ==
    ~HasRaised(plan_result)

\* C10: the route history changes only by appending: a call that returns
\* appends exactly the returned route as the new last entry, a call that fails
\* leaves the history unchanged, earlier entries are never removed, reordered
\* or modified, and the history length is the number of calls that returned.
C10_HistoryAppendOnly ==
    /\ [](/\ Len(generated_routes) = plan_returned
          /\ Len(get_route_history) = plan_returned
          /\ HasReturned(plan_result) =>
                generated_routes[Len(generated_routes)] = plan_result.returned)
    /\ [][/\ plan_returned' = plan_returned => generated_routes' = generated_routes
          /\ plan_returned' # plan_returned =>
                /\ plan_returned' = plan_returned + 1
                /\ generated_routes' = Append(generated_routes, plan_result'.returned)
          /\ plan_failed' # plan_failed => generated_routes' = generated_routes]_vars

C10_Witness ==
    /\ Len(generated_routes) = 2
    /\ generated_routes[1] # generated_routes[2]
    /\ plan_returned = 2
    /\ plan_failed = 1
    /\ plan_result = Returned(generated_routes[2])

\* C11: route ids are unique within a process lifetime: no two routes of the
\* history have the same id, also when two routes of the same kind are planned
\* within the same clock second.
C11_RouteIdsUnique ==
    \A i, j \in 1..Len(generated_routes) :
        i # j => generated_routes[i].route_id # generated_routes[j].route_id

PlanReturned(op) == plan_call.op = op /\ HasReturned(plan_result)

PositionOf(wp) == [lat |-> wp.lat, lon |-> wp.lon]

LastWaypoint(route_plan) == route_plan.waypoints[Len(route_plan.waypoints)]

\* C12 as stated: plan_mustering_route returns a route of exactly 6 waypoints
\* whose final waypoint is at the destination.
C12_SixWaypoints ==
    PlanReturned("plan_mustering_route") =>
        /\ Len(plan_result.returned.waypoints) = 6
        /\ PositionOf(LastWaypoint(plan_result.returned)) = plan_call.destination

\* C12 (amended): plan_mustering_route returns a route of exactly 5 waypoints
\* (approach, herd position, midpoint, destination approach, destination) for
\* every herd location and destination, and the position of the final waypoint
\* equals the destination.
C12_FiveWaypoints ==
    PlanReturned("plan_mustering_route") =>
        /\ Len(plan_result.returned.waypoints) = 5
        /\ PositionOf(LastWaypoint(plan_result.returned)) = plan_call.destination

C12_Witness ==
    /\ PlanReturned("plan_mustering_route")
    /\ plan_call.herd_location # plan_call.destination
    /\ plan_call.destination = [lat |-> 2000, lon |-> 4000]
    /\ Len(plan_result.returned.waypoints) = 5

\* C13: in every route returned by plan_mustering_route the speed is
\* non-increasing over the waypoints up to and including the herd-position
\* waypoint (2 m/s at the herd), and the final waypoint has speed 1, strictly
\* lower than the speed of every other waypoint of the route.
C13_SpeedsSlowNearAnimals ==
    PlanReturned("plan_mustering_route") =>
        LET wps == plan_result.returned.waypoints
        IN  /\ \E h \in 1..Len(wps) :
                  /\ PositionOf(wps[h]) = plan_call.herd_location
                  /\ wps[h].description = Desc("Herd location - maintain safe distance")
                  /\ wps[h].speed = PyNum(2)
                  /\ \A i \in 1..(h - 1) : wps[i].speed.num >= wps[i + 1].speed.num
            /\ wps[Len(wps)].speed = PyNum(1)
            /\ \A i \in 1..(Len(wps) - 1) : wps[i].speed.num > wps[Len(wps)].speed.num

C13_Witness ==
    /\ PlanReturned("plan_mustering_route")
    /\ plan_call.herd_location = [lat |-> -1000, lon |-> 2000]
    /\ plan_result.returned.waypoints[1].speed = PyNum(3)
    /\ plan_result.returned.waypoints[2].speed = PyNum(2)
    /\ LastWaypoint(plan_result.returned).speed = PyNum(1)

\* C14: plan_filming_route emits the start waypoint and then, for each subject
\* position in input order, an approach waypoint and a film waypoint, followed
\* by an orbit waypoint exactly when there is more than one subject position
\* or the kind is "advertisement": one subject of another kind gives 3
\* waypoints, N >= 2 subjects give 1 + 3N waypoints with the orbit directly
\* after each subject's film waypoint.
C14_FilmingWaypointOrder ==
    PlanReturned("plan_filming_route") =>
        LET wps == plan_result.returned.waypoints
            subjects == plan_call.subject_positions
            N == Len(subjects)
            orbit == N > 1 \/ plan_call.operation_type = "advertisement"
            k == IF orbit THEN 3 ELSE 2
        IN  /\ Len(wps) = 1 + k * N
            /\ PositionOf(wps[1]) = plan_call.start_pos
            /\ wps[1].description = Desc("Starting position - prepare for filming")
            /\ \A n \in 1..N :
                  LET base == 1 + k * (n - 1)
                  IN  /\ wps[base + 1].description = DescN("Approach subject", n)
                      /\ wps[base + 1].lon = subjects[n].lon
                      /\ wps[base + 2].description = DescN("Film subject", n)
                      /\ PositionOf(wps[base + 2]) = subjects[n]
                      /\ orbit => wps[base + 3].description = DescN("Orbit around subject", n)
            /\ \A i \in 1..Len(wps) :
                  (\E n \in 1..N : wps[i].description = DescN("Orbit around subject", n)) => orbit
            /\ (N = 1 /\ plan_call.operation_type # "advertisement") => Len(wps) = 3
            /\ N >= 2 => Len(wps) = 1 + 3 * N

C14_Witness ==
    /\ PlanReturned("plan_filming_route")
    /\ plan_call.operation_type = "wedding"
    /\ Len(plan_call.subject_positions) = 2
    /\ plan_call.subject_positions[1] # plan_call.subject_positions[2]
    /\ Len(plan_result.returned.waypoints) = 7
    /\ plan_result.returned.waypoints[4].description = DescN("Orbit around subject", 1)

\* route_length: the sum of the pairwise distance over consecutive waypoints
RECURSIVE RouteLength(_)
RouteLength(waypoints) ==
    IF Len(waypoints) < 2 THEN 0
    ELSE RouteLength(SubSeq(waypoints, 1, Len(waypoints) - 1))
         + segment_distance(waypoints[Len(waypoints) - 1], waypoints[Len(waypoints)])

DurationField(wp) == IF wp.duration = PyNone THEN 10 ELSE wp.duration.num

RECURSIVE SumDurationFields(_)
SumDurationFields(waypoints) ==
    IF Len(waypoints) = 0 THEN 0
    ELSE DurationField(Head(waypoints)) + SumDurationFields(Tail(waypoints))

\* C16: the estimated_duration of a route returned by plan_filming_route is
\* the sum of the duration fields of its waypoints, 10 seconds standing in
\* only for an absent duration; a film waypoint whose shot has duration d
\* (any d >= 0, also 0) contributes exactly d.
C16_DurationIsSumOfFields ==
    PlanReturned("plan_filming_route") =>
        plan_result.returned.estimated_duration =
            SumDurationFields(plan_result.returned.waypoints)

----------------------------------------------------------------------------
(* Properties of the subject tracker *)

Refs(list) == {list[i] : i \in 1..Len(list)}

\* an update_tracking call is entered in this step, on a running tracker
RunningUpdateStep == frames' = frames + 1 /\ running

C18_LostRaisesMovementAdvice ==
    (track_call.op = "update_tracking" /\ tracker_pc = "idle" /\ HasReturned(track_result)) =>
        \A ref \in track_call.lost_subjects :
            \E i \in (Len(track_call.before.advice_history) + 1)..Len(advice_history) :
                /\ advice_history[i].advice_type = "movement"
                /\ advice_history[i].priority = "high"
                /\ advice_history[i].message.subject_id = objects[ref].subject_id

IsPrefix(s, t) == Len(s) <= Len(t) /\ SubSeq(t, 1, Len(s)) = s

\* C19 as stated: after any sequence of tracker operations the history length
\* never decreases and entries are never removed or reordered.
C19_HistoryNeverShrinks ==
    [][IsPrefix(tracking_history, tracking_history')]_vars

\* C19 (amended): update_tracking only appends to the tracking history: it
\* never decreases its length and never removes or reorders entries, and
\* evicting a subject from the live map removes nothing from the history; the
\* history shrinks only when clear_history empties it together with the live
\* map and the advice history.
C19_HistoryAppendOnlyUntilCleared ==
    [][\/ IsPrefix(tracking_history, tracking_history')
       \/ /\ frames' = frames
          /\ tracking_history' = <<>>
          /\ advice_history' = <<>>
          /\ DOMAIN tracked_subjects' = {}]_vars

C19_Witness ==
    /\ Len(tracking_history) = 2
    /\ objects[tracking_history[1]].tracking_status = "lost"
    /\ objects[tracking_history[2]].tracking_status = "tracking"
    /\ tracked_subjects = [id \in {objects[tracking_history[2]].subject_id} |-> tracking_history[2]]
    /\ frames = 2

\* the live map and the history by content
LiveSubjects(map, objs) == [id \in DOMAIN map |-> objs[map[id]]]
HistoryEntries(history, objs) == [i \in 1..Len(history) |-> objs[history[i]]]

\* C20: cancelling an update_tracking call while it is suspended in the
\* awaited advisory call commits no partial state: the live subject map, the
\* tracking history and the advice history are as they were before the call.
C20_CancelCommitsNothing ==
    track_result = Raised("CancelledError") =>
        /\ LiveSubjects(tracked_subjects, objects)
              = LiveSubjects(track_call.before.tracked_subjects, track_call.before.objects)
        /\ HistoryEntries(tracking_history, objects)
              = HistoryEntries(track_call.before.tracking_history, track_call.before.objects)
        /\ advice_history = track_call.before.advice_history

\* an update_tracking call on a running tracker has returned
UpdateReturned ==
    /\ track_call.op = "update_tracking"
    /\ track_call.ran
    /\ tracker_pc = "idle"
    /\ HasReturned(track_result)

\* the advice the last update_tracking call appended to the advice history
AppendedAdvice ==
    SubSeq(advice_history, Len(track_call.before.advice_history) + 1, Len(advice_history))

HasFramingMessage(advice, subject_id) ==
    \E j \in DOMAIN advice :
        /\ advice[j].advice_type = "framing"
        /\ advice[j].priority = "medium"
        /\ advice[j].message.subject_id = subject_id

HasComposition(advice) == \E j \in DOMAIN advice : advice[j].advice_type = "composition"

\* C21: for every subject updated by an update_tracking call, a "framing"
\* message with priority "medium" is appended to the advice history in that
\* call if and only if the subject's framing_quality is strictly below the
\* framing threshold (0.7); a failure of the advisory call for one subject
\* neither removes that message nor propagates out of update_tracking (the
\* call returns its updated subjects unless its task is cancelled).
C21_FramingMessageIffBelowThreshold ==
    /\ UpdateReturned =>
          /\ track_result.returned = track_call.updated_subjects
          /\ \A k \in DOMAIN track_call.updated_subjects :
                LET tracked == objects[track_call.updated_subjects[k]]
                IN  HasFramingMessage(AppendedAdvice, tracked.subject_id)
                        <=> tracked.framing_quality < framing_threshold
    /\ (track_call.op = "update_tracking" /\ tracker_pc = "idle") =>
          (HasReturned(track_result) \/ track_result = Raised("CancelledError"))

\* the advisory call made for a badly framed subject raised, and the call returned
\* with the framing message; another call appended none for a well framed subject
C21_Witness ==
    /\ UpdateReturned
    /\ ai_advisor # PyNone
    /\ ai_advisor.claude_integration = OtherCapability
    /\ Len(track_call.updated_subjects) = 1
    /\ LET tracked == objects[track_call.updated_subjects[1]]
       IN  /\ tracked.framing_quality < composition_threshold
           /\ HasFramingMessage(AppendedAdvice, tracked.subject_id)
           /\ ~HasComposition(AppendedAdvice)

\* the size score as C22 states it: the ideal band 0.1 to 0.5 with its bounds
StatedSizeScore(area) ==
    LET frame_area == 1920 * 1080
    IN  IF 10 * area >= frame_area /\ 2 * area <= frame_area THEN 1000
        ELSE IF 20 * area < frame_area THEN 300
        ELSE IF 10 * area > 7 * frame_area THEN 500
        ELSE 700

\* the centering score as C22 states it: 1 - |center_x - 960| / 960, not below 0
StatedCentering(bbox) == Max(0, 1000 - (Abs(bbox[1] + bbox[3] - 2 * 960) * 1000) \div (2 * 960))

\* C22: the framing_quality of a detection is 0.4 * centering + 0.4 * size +
\* 0.2 * confidence and lies in [0,1], with the centering score and the banded
\* size score (1.0 for an area ratio from 0.1 to 0.5, bounds included; 0.3 below
\* 0.05; 0.5 above 0.7; 0.7 otherwise) of a 1920x1080 frame.
C22_FramingQualityFormula ==
    UpdateReturned =>
        \A k \in DOMAIN track_call.updated_subjects :
            LET tracked == objects[track_call.updated_subjects[k]]
                bbox == tracked.bbox
                area == (bbox[3] - bbox[1]) * (bbox[4] - bbox[2])
            IN  /\ tracked.framing_quality \in 0..1000
                /\ tracked.framing_quality =
                      (4 * StatedCentering(bbox) + 4 * StatedSizeScore(area)
                         + 2 * tracked.confidence) \div 10

\* the camera angle as C23 states it: by thirds of the 1080-pixel frame height
StatedCameraAngle(y) ==
    IF y < 360 THEN "overhead" ELSE IF y < 720 THEN "side" ELSE "low_angle"

\* C23: the camera angle update_tracking assigns to a detection with a 4-value
\* bounding box is "overhead" when the box lies in the top third of the frame
\* (y < 360), "side" in the middle third and "low_angle" in the bottom third
\* (y >= 720), whether or not a camera position is supplied.
C23_CameraAngleByThirds ==
    UpdateReturned =>
        \A k \in DOMAIN track_call.updated_subjects :
            LET tracked == objects[track_call.updated_subjects[k]]
            IN  Len(tracked.bbox) = 4 =>
                    tracked.camera_angle = StatedCameraAngle(tracked.bbox[2])

\* C23 with a camera position supplied: the thresholds alone
C23_CameraAngleByThirdsWithPosition ==
    (UpdateReturned /\ Truthy(track_call.camera_position)) =>
        \A k \in DOMAIN track_call.updated_subjects :
            LET tracked == objects[track_call.updated_subjects[k]]
            IN  Len(tracked.bbox) = 4 =>
                    tracked.camera_angle = StatedCameraAngle(tracked.bbox[2])

----------------------------------------------------------------------------
(* Properties of the hunting route *)

\* 0.0002 degrees towards bearing d (a multiple of 90): north is +lat, east is +lon
StatedOffset(d) ==
    [lat |-> IF d % 360 = 0 THEN 200 ELSE IF d % 360 = 180 THEN -200 ELSE 0,
     lon |-> IF d % 360 = 90 THEN 200 ELSE IF d % 360 = 270 THEN -200 ELSE 0]

\* C24: plan_hunting_route returns exactly 3 waypoints, start, approach, target:
\* the first at the start position (altitude 50, speed 4), the approach with
\* altitude 40 and speed 3, the last at the target position (altitude 35,
\* speed 1), so altitude and speed strictly decrease; without a wind direction
\* the approach is the target offset by -0.0002 degrees of latitude, and with a
\* wind bearing w it is offset by 0.0002 degrees in the direction w + 180.
C24_HuntingRouteSkeleton ==
    PlanReturned("plan_hunting_route") =>
        LET wps == plan_result.returned.waypoints
            target == plan_call.target_location
            w == plan_call.wind_direction
        IN  /\ Len(wps) = 3
            /\ PositionOf(wps[1]) = plan_call.start_pos
            /\ wps[1].altitude = PyNum(50) /\ wps[1].speed = PyNum(4)
            /\ wps[2].altitude = PyNum(40) /\ wps[2].speed = PyNum(3)
            /\ PositionOf(wps[3]) = target
            /\ wps[3].altitude = PyNum(35) /\ wps[3].speed = PyNum(1)
            /\ \A i \in 1..2 : /\ wps[i].altitude.num > wps[i + 1].altitude.num
                               /\ wps[i].speed.num > wps[i + 1].speed.num
            /\ IF w = PyNone
               THEN PositionOf(wps[2]) = [lat |-> target.lat - 200, lon |-> target.lon]
               ELSE PositionOf(wps[2]) =
                        [lat |-> target.lat + StatedOffset(w.num + 180).lat,
                         lon |-> target.lon + StatedOffset(w.num + 180).lon]

\* a hunting route planned with the wind from the east: the approach lies west of the target
C24_Witness ==
    /\ PlanReturned("plan_hunting_route")
    /\ plan_call.wind_direction = PyNum(90)
    /\ plan_call.target_location = [lat |-> 2000, lon |-> 4000]
    /\ PositionOf(plan_result.returned.waypoints[2]) = [lat |-> 2000, lon |-> 3800]

----------------------------------------------------------------------------
(* Properties of the subject tracker: ids, history entries, stopped tracker *)

\* C25: a detection that carries no subject_id never updates the record of a
\* subject already in the live map: the id update_tracking generates for it
\* differs from every id currently tracked, so the detection gets a record of
\* its own, after any sequence of update_tracking calls and evictions.
C25_GeneratedIdIsFresh ==
    [][RunningUpdateStep =>
         \A k \in DOMAIN track_call'.detections :
            "subject_id" \notin DOMAIN track_call'.detections[k] =>
                /\ track_call'.updated_subjects[k]
                       \notin {tracked_subjects[id] : id \in DOMAIN tracked_subjects}
                /\ \A j \in 1..(k - 1) :
                       track_call'.updated_subjects[j] # track_call'.updated_subjects[k]]_vars

\* C26: each tracking-history entry keeps the values it had when it was
\* appended: after a later update_tracking call updates or evicts the same
\* subject, the entry appended at frame N still reports frame_number N and the
\* status, bounding box and framing quality recorded at frame N.
C26_HistoryEntriesKeepValues ==
    [][RunningUpdateStep =>
         \A i \in 1..Len(tracking_history) :
            LET entry == objects[tracking_history[i]]
                later == objects'[tracking_history'[i]]
            IN  /\ later.frame_number = entry.frame_number
                /\ later.tracking_status = entry.tracking_status
                /\ later.bbox = entry.bbox
                /\ later.framing_quality = entry.framing_quality]_vars

\* an update_tracking call is entered in this step, on a tracker that is not running
StoppedUpdateStep == frames' = frames + 1 /\ ~running

\* C27: while the tracker is not running (before start or after shutdown),
\* update_tracking returns an empty list and leaves the live subject map, the
\* tracking history and the advice history unchanged for every input: no
\* subject is created, refreshed or evicted and the advisor is not called.
C27_StoppedUpdateDoesNothing ==
    [][StoppedUpdateStep =>
         /\ track_result' = Returned(<<>>)
         /\ tracker_pc' = "idle"
         /\ UNCHANGED <<objects, tracked_subjects, tracking_history, advice_history>>]_vars

\* after a shutdown, a call with a detection was made later than lost_timeout
\* after the last detection of a live subject, and that subject is still live
C27_Witness ==
    /\ track_call.op = "update_tracking"
    /\ ~track_call.ran
    /\ Len(track_call.detections) > 0
    /\ track_result = Returned(<<>>)
    /\ \E id \in DOMAIN tracked_subjects :
          track_call.current_time - objects[tracked_subjects[id]].timestamp > lost_timeout

----------------------------------------------------------------------------
(* Properties of the performance monitor and the alert manager *)

\* thread t is inside a call of fn
Inside(t, fn) == \E i \in DOMAIN stack[t] : stack[t][i].fn = fn

\* C28: every call of PerformanceMonitor.get_all_metrics eventually returns and
\* releases the monitor's lock, also when no other thread holds the lock;
\* consequently AlertManager.check_metrics, which calls it, always terminates.
C28_GetAllMetricsReturns ==
    \A t \in Threads :
        /\ Inside(t, "get_all_metrics") ~> (~Inside(t, "get_all_metrics") /\ lock # t)
        /\ Inside(t, "check_metrics") ~> ~Inside(t, "check_metrics")

\* the same as a state predicate: no thread waits for the lock it holds itself
C28_NoSelfDeadlock ==
    \A t \in Threads : ~(lock = t /\ stack[t] # <<>> /\ Top(t).at = "acquire")

MonitoredMetrics == {"latency", "cpu_percent", "memory_percent"}

ActiveAlertsOf(metric) == {a \in get_active_alerts : a.metric = metric}

----------------------------------------------------------------------------
(* Properties of the connection manager *)

\* a broadcast has been made and has returned
BroadcastCompleted == broadcasts > 0 /\ broadcast_at = "idle"

\* the connections broadcast called send_json on
Attempted == sent \cup ListItems(disconnected)

\* every connection that stayed in active_connections from the call of broadcast to its
\* return had send_json called on it
C30_DeliveredToAllPresent == BroadcastCompleted => whole_duration \subseteq Attempted

\* when broadcast returns, no connection whose send raised is left in active_connections
C30_FailedConnectionsRemoved ==
    BroadcastCompleted => ListItems(disconnected) \cap ListItems(active_connections) = {}

\* C30: broadcast delivers the message to every connection that is in active_connections
\* for the whole duration of the broadcast, also when connections connect or disconnect
\* while it is suspended in a send, and when it completes no connection whose send failed
\* remains in active_connections.
C30_BroadcastReachesEveryConnection ==
    C30_DeliveredToAllPresent /\ C30_FailedConnectionsRemoved

====
